---- MODULE Spec2Model ----
(***************************************************************************)
(* Model of loom's thread composition engine: the project manifest         *)
(* (loom.yaml), the project's files on disk, and the add / weave / remove  *)
(* commands that keep the two in agreement.                                *)
(*                                                                         *)
(* Strings that the code takes apart (paths, directory keys) are sequences *)
(* of tokens: "/" is the separator, "." the current directory, any other   *)
(* token a path component.  "sub/b" is <<"sub", "/", "b">>.                *)
(***************************************************************************)
EXTENDS Integers, Sequences, FiniteSets, TLC

VARIABLES manifest, disk, dirs, last, stores, sources

vars == <<manifest, disk, dirs, last, stores, sources>>

----------------------------------------------------------------------------
(* Universe of the model *)

Slash == "/"
Dot == "."

\* The key of the project root in a thread's files map.
RootKey == <<Dot, Slash>>

ThreadNames == {"t1", "t2", "t3"}

\* Destination files of the project, as cleaned paths relative to the root.
FileA == <<"a">>
FileB == <<"sub", Slash, "b">>
AllPaths == {FileA, FileB}

\* Content of a file: <<>> when the path does not exist, UserContent for
\* bytes the user wrote, otherwise the source location the bytes came from.
Absent == <<>>
UserContent == <<"user">>
\* A file that os.Remove fails to delete with an error other than "does not
\* exist" (no permission, or held open where that prevents deletion).
Undeletable == <<"undeletable">>

\* The configured local stores of the global configuration, in order.
GlobalStores == << [name |-> "S", type |-> "local", path |-> "/S"] >>

\* The places a thread's source can be: "project" is <project>/.loom, the
\* others are directories a store can be configured at.
Locations == {"project", "/S", "/S2"}

\* sources says what <location>/<thread>/_thread is: "dir", "file" or
\* "none".  These are the source trees the project is composed from.
GlobalSources ==
    [x \in Locations \X ThreadNames |->
        CASE x[1] = "project" /\ x[2] \in {"t1", "t2"} -> "dir"
          [] x[1] = "/S" /\ x[2] \in {"t2", "t3"} -> "dir"
          [] OTHER -> "none"]

\* os.Stat of <location>/<thread>/_thread.
ThreadDirKind(loc, thread) ==
    IF <<loc, thread>> \in DOMAIN sources THEN sources[<<loc, thread>>] ELSE "none"

\* The regular files under a source directory.
SourceTree(loc, thread) ==
    CASE loc = "project" /\ thread = "t1" -> {FileA, FileB}
      [] loc = "project" /\ thread = "t2" -> {FileA}
      [] loc = "/S" /\ thread = "t2" -> {FileA, FileB}
      [] loc = "/S" /\ thread = "t3" -> {FileA, FileB}
      [] loc = "/S" /\ thread = "t1" -> {FileA}
      [] loc = "/S2" -> {FileA}
      [] OTHER -> {}

\* The bytes of every file of one source tree are tagged by the tree.
SourceContent(loc, thread) == <<loc, thread>>

\* The answers the overwrite prompt can return.
Decide == {"yes", "no", "skip"}

----------------------------------------------------------------------------
(* Path helpers (path/filepath) *)

HasSuffixSlash(s) == Len(s) > 0 /\ s[Len(s)] = Slash

Components(s) == SelectSeq(s, LAMBDA t : t # Slash /\ t # Dot)

RECURSIVE Interleave(_)
Interleave(c) ==
    IF Len(c) <= 1 THEN c ELSE <<c[1], Slash>> \o Interleave(Tail(c))

\* filepath.Clean of a relative path.
Clean(s) == IF Components(s) = <<>> THEN <<Dot>> ELSE Interleave(Components(s))

\* filepath.Join of two elements.
Join(a, b) ==
    IF a = <<>> THEN Clean(b)
    ELSE IF b = <<>> THEN Clean(a)
    ELSE Clean(a \o <<Slash>> \o b)

\* filepath.Split: the directory part keeps its trailing separator.
Split(p) ==
    LET I == {i \in 1..Len(p) : p[i] = Slash}
        k == IF I = {} THEN 0 ELSE CHOOSE i \in I : \A j \in I : j <= i
    IN  [dir |-> SubSeq(p, 1, k), file |-> SubSeq(p, k + 1, Len(p))]

\* filepath.Dir
Dir(p) == Clean(Split(p).dir)

\* weave.go normalizeDir
normalizeDir(dirPath) ==
    IF dirPath = <<>> \/ dirPath = <<Dot>> THEN RootKey
    ELSE IF ~HasSuffixSlash(dirPath) THEN dirPath \o <<Slash>>
    ELSE dirPath

----------------------------------------------------------------------------
(* Files maps: directory key -> set of file names *)

EmptyFiles == [k \in {} |-> {}]

AddToFiles(m, d, f) ==
    IF d \in DOMAIN m THEN [m EXCEPT ![d] = @ \cup {f}]
    ELSE [k \in DOMAIN m \cup {d} |-> IF k = d THEN {f} ELSE m[k]]

DeleteKey(m, d) == [k \in DOMAIN m \ {d} |-> m[k]]

\* The (key, file) pairs of a files map.
Pairs(m) == UNION {{<<d, f>> : f \in m[d]} : d \in DOMAIN m}

\* A fixed enumeration of a finite set.
RECURSIVE SetToSeq(_)
SetToSeq(S) ==
    IF S = {} THEN <<>>
    ELSE LET x == CHOOSE y \in S : TRUE IN <<x>> \o SetToSeq(S \ {x})

MinOf(I) == CHOOSE i \in I : \A j \in I : i <= j

----------------------------------------------------------------------------
(* Manifest model (package project) *)

\* Thread.Source as add records it.
ProjectSource(threadName) == <<"project:", ".loom", Slash, threadName>>
StoreSource(storeName) == <<storeName>>

\* The path IsFileOwned rebuilds from a stored key and a file name.
FullOwnedPath(dir, ownedFile) ==
    LET normalizedDir ==
            IF dir # RootKey /\ ~HasSuffixSlash(dir) THEN dir \o <<Slash>> ELSE dir
    IN  IF normalizedDir = RootKey THEN <<ownedFile>>
        ELSE Join(normalizedDir, <<ownedFile>>)

ThreadLists(thread, relPath) ==
    \E p \in Pairs(thread.files) : FullOwnedPath(p[1], p[2]) = relPath

\* Mutant: the stored key is used as it is, without the trailing slash being
\* supplied.
IsFileOwned_KeyAsStored(cfg, relPath) ==
    LET I == {i \in 1..Len(cfg) :
                \E p \in Pairs(cfg[i].files) :
                    IF p[1] = RootKey THEN <<p[2]>> = relPath
                    ELSE p[1] \o <<p[2]>> = relPath}
    IN  IF I = {} THEN [owner |-> "", isOwned |-> FALSE]
        ELSE [owner |-> cfg[MinOf(I)].name, isOwned |-> TRUE]

\* LoomConfig.IsFileOwned: the first thread, in manifest order, that lists
\* the path; owner "" when there is none.
IsFileOwned(cfg, relPath) ==
    LET I == {i \in 1..Len(cfg) : ThreadLists(cfg[i], relPath)}
    IN  IF I = {} THEN [owner |-> "", isOwned |-> FALSE]
        ELSE [owner |-> cfg[MinOf(I)].name, isOwned |-> TRUE]

\* The set of thread names that list the path.
Owners(cfg, relPath) == {cfg[i].name : i \in {j \in 1..Len(cfg) : ThreadLists(cfg[j], relPath)}}

\* The paths a thread lists.
OwnedPaths(thread) == {FullOwnedPath(p[1], p[2]) : p \in Pairs(thread.files)}

IndexOf(cfg, name) ==
    LET I == {i \in 1..Len(cfg) : cfg[i].name = name}
    IN  IF I = {} THEN 0 ELSE MinOf(I)

----------------------------------------------------------------------------
(* weave *)

\* Mutant: the revocation is forgotten.
removeFileFromThreadManifest_Forgotten(cfg, ownerThreadName, fileRelToProject) == cfg

\* weave.go removeFileFromThreadManifest
removeFileFromThreadManifest(cfg, ownerThreadName, fileRelToProject) ==
    LET sp == Split(fileRelToProject)
        normalizedDir == normalizeDir(sp.dir)
        file == sp.file[1]
        i == IndexOf(cfg, ownerThreadName)
    IN  IF i = 0 THEN cfg
        ELSE IF normalizedDir \notin DOMAIN cfg[i].files THEN cfg
        ELSE LET updatedFilesInDir == cfg[i].files[normalizedDir] \ {file}
             IN  IF updatedFilesInDir # {}
                 THEN [cfg EXCEPT ![i].files[normalizedDir] = updatedFilesInDir]
                 ELSE [cfg EXCEPT ![i].files = DeleteKey(@, normalizedDir)]

\* The kinds of failure the environment can inject into a command: a
\* directory that cannot be created, a prompt whose input ends, a destination
\* that cannot be written, a source file that vanished after it was listed,
\* a source file that cannot be read.
Faults == {"mkdir", "prompt", "write", "vanished", "unreadable"}

\* weave.go promptUserForOverwriteInWeave: an answer, or "error" when reading
\* the input fails.
promptUserForOverwriteInWeave(faults) ==
    Decide \cup (IF "prompt" \in faults THEN {"error"} ELSE {})

\* Mutant: a targeted weave writes the file but leaves it with its owner.
handleFileConflictOwnedByOther_NoRevoke(cfg, currentThreadName, threadNameToWeave, ownerThreadName, rel, faults) ==
    IF threadNameToWeave = ""
    THEN {[cfg |-> IF choice = "yes"
                   THEN removeFileFromThreadManifest(cfg, ownerThreadName, rel)
                   ELSE cfg,
           shouldWrite |-> (choice = "yes"), asked |-> TRUE,
           answer |-> IF choice = "error" THEN "" ELSE choice,
           err |-> IF choice = "error" THEN "prompt" ELSE ""]
          : choice \in promptUserForOverwriteInWeave(faults)}
    ELSE IF threadNameToWeave = currentThreadName
    THEN {[cfg |-> cfg, shouldWrite |-> TRUE, asked |-> FALSE, answer |-> "",
           err |-> ""]}
    ELSE {[cfg |-> cfg, shouldWrite |-> FALSE, asked |-> FALSE, answer |-> "",
           err |-> ""]}

\* weave.go handleFileConflictOwnedByOther: the possible outcomes, one per
\* answer of the prompt when it is asked.
handleFileConflictOwnedByOther(cfg, currentThreadName, threadNameToWeave, ownerThreadName, rel, faults) ==
    IF threadNameToWeave = ""
    THEN {[cfg |-> IF choice = "yes"
                   THEN removeFileFromThreadManifest(cfg, ownerThreadName, rel)
                   ELSE cfg,
           shouldWrite |-> (choice = "yes"), asked |-> TRUE,
           answer |-> IF choice = "error" THEN "" ELSE choice,
           err |-> IF choice = "error" THEN "prompt" ELSE ""]
          : choice \in promptUserForOverwriteInWeave(faults)}
    ELSE IF threadNameToWeave = currentThreadName
    THEN {[cfg |-> removeFileFromThreadManifest(cfg, ownerThreadName, rel),
           shouldWrite |-> TRUE, asked |-> FALSE, answer |-> "", err |-> ""]}
    ELSE {[cfg |-> cfg, shouldWrite |-> FALSE, asked |-> FALSE, answer |-> "",
           err |-> ""]}

\* Mutant: an unowned file is overwritten without a prompt.
handleFileConflictUnowned_NoPrompt(cfg, currentThreadName, threadNameToWeave, faults) ==
    IF threadNameToWeave = "" \/ threadNameToWeave = currentThreadName
    THEN {[cfg |-> cfg, shouldWrite |-> TRUE, asked |-> FALSE, answer |-> "",
           err |-> ""]}
    ELSE {[cfg |-> cfg, shouldWrite |-> FALSE, asked |-> FALSE, answer |-> "",
           err |-> ""]}

\* Mutant: only the answer no declines; on skip the file is written.
handleFileConflictUnowned_SkipWrites(cfg, currentThreadName, threadNameToWeave, faults) ==
    IF threadNameToWeave = ""
    THEN {[cfg |-> cfg, shouldWrite |-> (choice \in {"yes", "skip"}), asked |-> TRUE,
           answer |-> IF choice = "error" THEN "" ELSE choice,
           err |-> IF choice = "error" THEN "prompt" ELSE ""]
          : choice \in promptUserForOverwriteInWeave(faults)}
    ELSE IF threadNameToWeave = currentThreadName
    THEN {[cfg |-> cfg, shouldWrite |-> TRUE, asked |-> FALSE, answer |-> "",
           err |-> ""]}
    ELSE {[cfg |-> cfg, shouldWrite |-> FALSE, asked |-> FALSE, answer |-> "",
           err |-> ""]}

\* weave.go handleFileConflictUnowned
handleFileConflictUnowned(cfg, currentThreadName, threadNameToWeave, faults) ==
    IF threadNameToWeave = ""
    THEN {[cfg |-> cfg, shouldWrite |-> (choice = "yes"), asked |-> TRUE,
           answer |-> IF choice = "error" THEN "" ELSE choice,
           err |-> IF choice = "error" THEN "prompt" ELSE ""]
          : choice \in promptUserForOverwriteInWeave(faults)}
    ELSE IF threadNameToWeave = currentThreadName
    THEN {[cfg |-> cfg, shouldWrite |-> TRUE, asked |-> FALSE, answer |-> "",
           err |-> ""]}
    ELSE {[cfg |-> cfg, shouldWrite |-> FALSE, asked |-> FALSE, answer |-> "",
           err |-> ""]}

\* os.MkdirAll of the directory of a destination: the directories after it,
\* and whether it can fail (it cannot when the directory is there already).
MkdirAll(drs, rel) == drs \cup (IF Dir(rel) = <<Dot>> THEN {} ELSE {Dir(rel)})
MkdirAllCanFail(drs, rel, faults) ==
    "mkdir" \in faults /\ Dir(rel) # <<Dot>> /\ Dir(rel) \notin drs

\* Mutant: a file the thread already owns is left alone instead of being
\* written again.
decideFileWeavingAction_SkipOwn(st, currentThreadName, threadNameToWeave, rel) ==
    IF st.disk[rel] # Absent
    THEN LET o == IsFileOwned(st.cfg, rel)
             outs == IF o.isOwned /\ o.owner # currentThreadName
                     THEN handleFileConflictOwnedByOther(st.cfg, currentThreadName,
                              threadNameToWeave, o.owner, rel, st.faults)
                     ELSE IF ~o.isOwned
                     THEN handleFileConflictUnowned(st.cfg, currentThreadName,
                                                    threadNameToWeave, st.faults)
                     ELSE {[cfg |-> st.cfg, shouldWrite |-> FALSE, asked |-> FALSE,
                            answer |-> "", err |-> ""]}
         IN  {[cfg |-> r.cfg, dirs |-> st.dirs, shouldWrite |-> r.shouldWrite,
               asked |-> r.asked, answer |-> r.answer, err |-> r.err] : r \in outs}
    ELSE {[cfg |-> st.cfg, dirs |-> MkdirAll(st.dirs, rel),
           shouldWrite |-> TRUE, asked |-> FALSE, answer |-> "", err |-> ""]}
         \cup (IF MkdirAllCanFail(st.dirs, rel, st.faults)
               THEN {[cfg |-> st.cfg, dirs |-> st.dirs, shouldWrite |-> FALSE,
                      asked |-> FALSE, answer |-> "", err |-> "mkdir"]}
               ELSE {})

\* weave.go decideFileWeavingAction: also creates the destination
\* directory when the file does not exist.
decideFileWeavingAction(st, currentThreadName, threadNameToWeave, rel) ==
    IF st.disk[rel] # Absent
    THEN LET o == IsFileOwned(st.cfg, rel)
             outs == IF o.isOwned /\ o.owner # currentThreadName
                     THEN handleFileConflictOwnedByOther(st.cfg, currentThreadName,
                              threadNameToWeave, o.owner, rel, st.faults)
                     ELSE IF ~o.isOwned
                     THEN handleFileConflictUnowned(st.cfg, currentThreadName,
                                                    threadNameToWeave, st.faults)
                     ELSE {[cfg |-> st.cfg, shouldWrite |-> TRUE, asked |-> FALSE,
                            answer |-> "", err |-> ""]}
         IN  {[cfg |-> r.cfg, dirs |-> st.dirs, shouldWrite |-> r.shouldWrite,
               asked |-> r.asked, answer |-> r.answer, err |-> r.err] : r \in outs}
    ELSE {[cfg |-> st.cfg, dirs |-> MkdirAll(st.dirs, rel),
           shouldWrite |-> TRUE, asked |-> FALSE, answer |-> "", err |-> ""]}
         \cup (IF MkdirAllCanFail(st.dirs, rel, st.faults)
               THEN {[cfg |-> st.cfg, dirs |-> st.dirs, shouldWrite |-> FALSE,
                      asked |-> FALSE, answer |-> "", err |-> "mkdir"]}
               ELSE {})

\* One entry of the operation's log: what the code saw and did for one file.
\* skipped: the source file was not there and no decision was taken.
\* err: the error that stopped the command at this file, "" when none did.
Event(threadName, rel, st, o, skipped, asked, answer, written) ==
    [thread |-> threadName, path |-> rel, existed |-> (st.disk[rel] # Absent),
     before |-> st.disk[rel], isOwned |-> o.isOwned, owner |-> o.owner,
     skipped |-> skipped, asked |-> asked, answer |-> answer, written |-> written,
     holders |-> Owners(st.cfg, rel), err |-> ""]

\* The command stops at this file with an error.  The file is left as it
\* was: a write that fails after it has truncated the file is not modelled.
Failed(st, cfg2, drs2, event, e) ==
    [st EXCEPT !.cfg = cfg2, !.dirs = drs2, !.err = e,
               !.events = Append(@, [event EXCEPT !.err = e])]

\* weave.go handleFileWeavingOperation: a source file that is not there is
\* skipped; otherwise the decision is taken and, if it says so, the file is
\* read from the source and written.  st.written is
\* filesActuallyWrittenByThisThread of processWeavingForThread.
handleFileWeavingOperation(st, currentThreadName, threadNameToWeave, src, dirToProcess, fileToProcess) ==
    LET rel == Join(dirToProcess, <<fileToProcess>>)
        o == IsFileOwned(st.cfg, rel)
        inSource == rel \in SourceTree(src.loc, src.thread)
        ev(skipped, asked, answer, written) ==
            Event(currentThreadName, rel, st, o, skipped, asked, answer, written)
        outcomes(action) ==
            IF action.err # ""
            THEN {Failed(st, action.cfg, action.dirs,
                         ev(FALSE, action.asked, action.answer, FALSE), action.err)}
            ELSE IF ~action.shouldWrite
            THEN {[st EXCEPT !.cfg = action.cfg, !.dirs = action.dirs,
                             !.events = Append(@, ev(FALSE, action.asked,
                                                     action.answer, FALSE))]}
            ELSE {[st EXCEPT !.cfg = action.cfg, !.dirs = action.dirs,
                             !.disk[rel] = SourceContent(src.loc, src.thread),
                             !.written = AddToFiles(@, dirToProcess, fileToProcess),
                             !.events = Append(@, ev(FALSE, action.asked,
                                                     action.answer, TRUE))]}
                 \cup {Failed(st, action.cfg, action.dirs,
                              ev(FALSE, action.asked, action.answer, FALSE), e)
                       : e \in (IF "unreadable" \in st.faults THEN {"read source"}
                                ELSE {})
                               \cup (IF "write" \in st.faults THEN {"write"} ELSE {})}
    IN  (IF ~inSource \/ "vanished" \in st.faults
         THEN {[st EXCEPT !.events = Append(@, ev(TRUE, FALSE, "", FALSE))]}
         ELSE {})
        \cup
        (IF inSource
         THEN UNION {outcomes(action)
                     : action \in decideFileWeavingAction(st, currentThreadName,
                                                          threadNameToWeave, rel)}
         ELSE {})

\* weave.go determineThreadSourcePath: a "project:" source names its own
\* directory under the project; any other source falls back to
\* <project>/.loom/<thread name>/_thread.
determineThreadSourcePath(thread) ==
    IF Len(thread.source) > 0 /\ thread.source[1] = "project:"
    THEN [loc |-> "project", thread |-> thread.source[Len(thread.source)]]
    ELSE [loc |-> "project", thread |-> thread.name]

\* Mutant: a targeted weave walks the source tree like a weave of all threads.
collectFilesToProcessForWeaving_Resync(thread, src, threadNameToWeave) ==
    IF threadNameToWeave = "" \/ threadNameToWeave = thread.name
    THEN {<<normalizeDir(Split(path).dir), Split(path).file[1]>>
          : path \in SourceTree(src.loc, src.thread)}
    ELSE {}

\* weave.go collectFilesToProcessForWeaving: the thread's recorded files
\* for a targeted weave, a walk of the source tree otherwise.
collectFilesToProcessForWeaving(thread, src, threadNameToWeave) ==
    IF threadNameToWeave # "" /\ threadNameToWeave = thread.name
    THEN {<<normalizeDir(p[1]), p[2]>> : p \in Pairs(thread.files)}
    ELSE IF threadNameToWeave = ""
    THEN {<<normalizeDir(Split(path).dir), Split(path).file[1]>>
          : path \in SourceTree(src.loc, src.thread)}
    ELSE {}

\* Mutant: the files after one that failed are processed all the same.
RECURSIVE WeaveFiles_KeepsGoing(_, _, _, _, _)
WeaveFiles_KeepsGoing(st, currentThreadName, threadNameToWeave, src, todo) ==
    IF todo = <<>> THEN {st}
    ELSE UNION {WeaveFiles_KeepsGoing(s2, currentThreadName, threadNameToWeave, src,
                                      Tail(todo))
                : s2 \in handleFileWeavingOperation(st, currentThreadName,
                             threadNameToWeave, src, Head(todo)[1], Head(todo)[2])}

\* The file loop of processWeavingForThread: it returns at the first error.
RECURSIVE WeaveFiles(_, _, _, _, _)
WeaveFiles(st, currentThreadName, threadNameToWeave, src, todo) ==
    IF todo = <<>> \/ st.err # "" THEN {st}
    ELSE UNION {WeaveFiles(s2, currentThreadName, threadNameToWeave, src, Tail(todo))
                : s2 \in handleFileWeavingOperation(st, currentThreadName,
                             threadNameToWeave, src, Head(todo)[1], Head(todo)[2])}

\* Mutant: a thread whose source directory is missing is processed like any
\* other, over the files the walk or the manifest gives.
processWeavingForThread_NoSkip(st, i, threadNameToWeave) ==
    LET thread == st.cfg[i]
        src == determineThreadSourcePath(thread)
    IN  IF threadNameToWeave # "" /\ thread.name # threadNameToWeave THEN {st}
        ELSE {IF s2.err # "" THEN s2
              ELSE [s2 EXCEPT !.cfg[i].files = s2.written, !.written = EmptyFiles]
              : s2 \in WeaveFiles([st EXCEPT !.written = EmptyFiles], thread.name,
                                  threadNameToWeave, src,
                                  SetToSeq(collectFilesToProcessForWeaving(
                                               thread, src, threadNameToWeave)))}

\* Mutant: the threads a targeted weave does not name are processed too.
processWeavingForThread_AllThreads(st, i, threadNameToWeave) ==
    LET thread == st.cfg[i]
        src == determineThreadSourcePath(thread)
    IN  IF ThreadDirKind(src.loc, src.thread) = "none" THEN {st}
        ELSE {IF s2.err # "" THEN s2
              ELSE [s2 EXCEPT !.cfg[i].files = s2.written, !.written = EmptyFiles]
              : s2 \in WeaveFiles([st EXCEPT !.written = EmptyFiles], thread.name,
                                  threadNameToWeave, src,
                                  SetToSeq(collectFilesToProcessForWeaving(
                                               thread, src, threadNameToWeave)))}

\* Mutant: a file the thread asked about and did not write is recorded for
\* the thread all the same.
processWeavingForThread_KeepsDeclined(st, i, threadNameToWeave) ==
    LET thread == st.cfg[i]
        src == determineThreadSourcePath(thread)
        declined(s2) ==
            {s2.events[k].path : k \in
                {j \in 1..Len(s2.events) : /\ j > Len(st.events)
                                           /\ s2.events[j].asked
                                           /\ ~s2.events[j].written}}
        withDeclined(s2) ==
            [d \in DOMAIN s2.written
                   \cup {normalizeDir(Split(q).dir) : q \in declined(s2)} |->
                (IF d \in DOMAIN s2.written THEN s2.written[d] ELSE {})
                \cup {Split(q).file[1] :
                         q \in {x \in declined(s2) : normalizeDir(Split(x).dir) = d}}]
    IN  IF threadNameToWeave # "" /\ thread.name # threadNameToWeave THEN {st}
        ELSE IF ThreadDirKind(src.loc, src.thread) = "none" THEN {st}
        ELSE {IF s2.err # "" THEN s2
              ELSE [s2 EXCEPT !.cfg[i].files = withDeclined(s2), !.written = EmptyFiles]
              : s2 \in WeaveFiles([st EXCEPT !.written = EmptyFiles], thread.name,
                                  threadNameToWeave, src,
                                  SetToSeq(collectFilesToProcessForWeaving(
                                               thread, src, threadNameToWeave)))}

\* Mutant: the thread's files are not replaced by the files written before
\* the next thread is processed.
processWeavingForThread_NoReplace(st, i, threadNameToWeave) ==
    LET thread == st.cfg[i]
        src == determineThreadSourcePath(thread)
    IN  IF threadNameToWeave # "" /\ thread.name # threadNameToWeave THEN {st}
        ELSE IF ThreadDirKind(src.loc, src.thread) = "none" THEN {st}
        ELSE {IF s2.err # "" THEN s2
              ELSE [s2 EXCEPT !.written = EmptyFiles]
              : s2 \in WeaveFiles([st EXCEPT !.written = EmptyFiles], thread.name,
                                  threadNameToWeave, src,
                                  SetToSeq(collectFilesToProcessForWeaving(
                                               thread, src, threadNameToWeave)))}

\* weave.go processWeavingForThread, for the thread at index i: skipped when
\* it is not the target or its source directory is missing; otherwise every
\* collected file is processed and the thread's files are replaced by the
\* files written, unless a file stopped the command with an error.
processWeavingForThread(st, i, threadNameToWeave) ==
    LET thread == st.cfg[i]
        src == determineThreadSourcePath(thread)
    IN  IF threadNameToWeave # "" /\ thread.name # threadNameToWeave THEN {st}
        ELSE IF ThreadDirKind(src.loc, src.thread) = "none" THEN {st}
        ELSE {IF s2.err # "" THEN s2
              ELSE [s2 EXCEPT !.cfg[i].files = s2.written, !.written = EmptyFiles]
              : s2 \in WeaveFiles([st EXCEPT !.written = EmptyFiles], thread.name,
                                  threadNameToWeave, src,
                                  SetToSeq(collectFilesToProcessForWeaving(
                                               thread, src, threadNameToWeave)))}

RECURSIVE WeaveThreads(_, _, _)
WeaveThreads(st, i, threadNameToWeave) ==
    IF i > Len(st.cfg) \/ st.err # "" THEN {st}
    ELSE UNION {WeaveThreads(s2, i + 1, threadNameToWeave)
                : s2 \in processWeavingForThread(st, i, threadNameToWeave)}

\* Mutant: a target that is not in the manifest is no error; the threads of
\* the manifest are woven as if no target had been given.
Weave_UnknownTargetWeavesAll(cfg, dsk, drs, threadNameToWeave, faults) ==
    LET st0 == [cfg |-> cfg, disk |-> dsk, dirs |-> drs, written |-> EmptyFiles,
                events |-> <<>>, err |-> "", faults |-> faults]
        target == IF IndexOf(cfg, threadNameToWeave) = 0 THEN ""
                  ELSE threadNameToWeave
    IN  {[cfg |-> IF s.err = "" THEN s.cfg ELSE cfg,
          disk |-> s.disk, dirs |-> s.dirs, events |-> s.events,
          err |-> s.err] : s \in WeaveThreads(st0, 1, target)}

\* weave.go Weave: the outcomes of one run under the given failures.  The
\* manifest is loaded once and saved once, after all threads were processed
\* without error.  A target that is not in the manifest is an error.
Weave(cfg, dsk, drs, threadNameToWeave, faults) ==
    LET st0 == [cfg |-> cfg, disk |-> dsk, dirs |-> drs, written |-> EmptyFiles,
                events |-> <<>>, err |-> "", faults |-> faults]
    IN  IF threadNameToWeave # "" /\ IndexOf(cfg, threadNameToWeave) = 0
        THEN {[cfg |-> cfg, disk |-> dsk, dirs |-> drs, events |-> <<>>,
               err |-> "thread not found"]}
        ELSE {[cfg |-> IF s.err = "" THEN s.cfg ELSE cfg,
               disk |-> s.disk, dirs |-> s.dirs, events |-> s.events,
               err |-> s.err] : s \in WeaveThreads(st0, 1, threadNameToWeave)}

----------------------------------------------------------------------------
(* add *)

\* The command-line arguments tried for add.
AddArgs ==
    {<<"t1">>, <<"t2">>, <<"t3">>, <<"S", Slash, "t1">>, <<"S", Slash, "t2">>,
     <<"S", Slash, "t3">>, <<"X", Slash, "t2">>, <<"S2", Slash, "t1">>, <<>>,
     <<Slash>>,
     <<"S", Slash>>, <<Slash, "t1">>}

NameOf(tokens) == IF tokens = <<>> THEN "" ELSE tokens[1]

\* Mutant: the two parts of store/thread are not tested for emptiness.
parseAddArgs_EmptyPartsAccepted(fullThreadArg) ==
    LET I == {i \in 1..Len(fullThreadArg) : fullThreadArg[i] = Slash}
    IN  IF fullThreadArg = <<>>
        THEN [err |-> "thread name required", store |-> "", thread |-> ""]
        ELSE IF I = {}
        THEN [err |-> "", store |-> "", thread |-> NameOf(fullThreadArg)]
        ELSE LET k == MinOf(I)
                 targetStoreName == NameOf(SubSeq(fullThreadArg, 1, k - 1))
                 threadName == NameOf(SubSeq(fullThreadArg, k + 1, Len(fullThreadArg)))
             IN  [err |-> "", store |-> targetStoreName, thread |-> threadName]

\* add parseAddArgs: strings.SplitN(arg, "/", 2).
parseAddArgs(fullThreadArg) ==
    LET I == {i \in 1..Len(fullThreadArg) : fullThreadArg[i] = Slash}
    IN  IF fullThreadArg = <<>>
        THEN [err |-> "thread name required", store |-> "", thread |-> ""]
        ELSE IF I = {}
        THEN [err |-> "", store |-> "", thread |-> NameOf(fullThreadArg)]
        ELSE LET k == MinOf(I)
                 targetStoreName == NameOf(SubSeq(fullThreadArg, 1, k - 1))
                 threadName == NameOf(SubSeq(fullThreadArg, k + 1, Len(fullThreadArg)))
             IN  IF targetStoreName = "" \/ threadName = ""
                 THEN [err |-> "invalid format", store |-> "", thread |-> ""]
                 ELSE [err |-> "", store |-> targetStoreName, thread |-> threadName]

\* add findThreadInProjectStore: any entry at <project>/.loom/<name>/_thread
\* counts as found.
findThreadInProjectStore(threadName) ==
    IF ThreadDirKind("project", threadName) # "none"
    THEN [found |-> TRUE, loc |-> "project", source |-> ProjectSource(threadName)]
    ELSE [found |-> FALSE, loc |-> "", source |-> <<>>]

\* add findThreadInLocalStores, from store index i on.
RECURSIVE findThreadInLocalStores(_, _, _, _)
findThreadInLocalStores(targetStoreName, threadName, gConfStores, i) ==
    IF i > Len(gConfStores)
    THEN [found |-> FALSE, loc |-> "", source |-> <<>>, err |-> ""]
    ELSE IF targetStoreName # "" /\ gConfStores[i].name # targetStoreName
    THEN findThreadInLocalStores(targetStoreName, threadName, gConfStores, i + 1)
    ELSE IF gConfStores[i].type # "local"
    THEN findThreadInLocalStores(targetStoreName, threadName, gConfStores, i + 1)
    ELSE IF ThreadDirKind(gConfStores[i].path, threadName) = "dir"
    THEN [found |-> TRUE, loc |-> gConfStores[i].path,
          source |-> StoreSource(gConfStores[i].name), err |-> ""]
    ELSE IF ThreadDirKind(gConfStores[i].path, threadName) = "file"
    THEN [found |-> FALSE, loc |-> gConfStores[i].path, source |-> <<>>,
          err |-> "malformed"]
    ELSE findThreadInLocalStores(targetStoreName, threadName, gConfStores, i + 1)

\* Mutant: the configured stores are consulted before the project store.
handleThreadSearch_StoresFirst(targetStoreName, threadName) ==
    LET inProject == findThreadInProjectStore(threadName)
        inLocal == findThreadInLocalStores(targetStoreName, threadName,
                                           stores, 1)
    IN  IF inLocal.err # ""
        THEN [err |-> inLocal.err, loc |-> inLocal.loc, source |-> <<>>]
        ELSE IF inLocal.found
        THEN [err |-> "", loc |-> inLocal.loc, source |-> inLocal.source]
        ELSE IF targetStoreName = "" /\ inProject.found
        THEN [err |-> "", loc |-> inProject.loc, source |-> inProject.source]
        ELSE IF targetStoreName # ""
        THEN IF \E i \in 1..Len(stores) : stores[i].name = targetStoreName
             THEN [err |-> "not found in specified store", loc |-> "", source |-> <<>>]
             ELSE [err |-> "unknown store", loc |-> "", source |-> <<>>]
        ELSE [err |-> "not found in any source", loc |-> "", source |-> <<>>]

\* Mutant: the project store is consulted even when a store is named.
handleThreadSearch_ProjectAlways(targetStoreName, threadName) ==
    LET inProject == findThreadInProjectStore(threadName)
        inLocal == findThreadInLocalStores(targetStoreName, threadName,
                                           stores, 1)
    IN  IF inProject.found
        THEN [err |-> "", loc |-> inProject.loc, source |-> inProject.source]
        ELSE IF inLocal.err # ""
        THEN [err |-> inLocal.err, loc |-> inLocal.loc, source |-> <<>>]
        ELSE IF inLocal.found
        THEN [err |-> "", loc |-> inLocal.loc, source |-> inLocal.source]
        ELSE IF targetStoreName # ""
        THEN IF \E i \in 1..Len(stores) : stores[i].name = targetStoreName
             THEN [err |-> "not found in specified store", loc |-> "", source |-> <<>>]
             ELSE [err |-> "unknown store", loc |-> "", source |-> <<>>]
        ELSE [err |-> "not found in any source", loc |-> "", source |-> <<>>]

\* Mutant: a named store that is not configured is reported like a store
\* that does not hold the thread.
handleThreadSearch_OneNotFound(targetStoreName, threadName) ==
    LET inProject == findThreadInProjectStore(threadName)
        inLocal == findThreadInLocalStores(targetStoreName, threadName,
                                           stores, 1)
    IN  IF targetStoreName = "" /\ inProject.found
        THEN [err |-> "", loc |-> inProject.loc, source |-> inProject.source]
        ELSE IF inLocal.err # ""
        THEN [err |-> inLocal.err, loc |-> inLocal.loc, source |-> <<>>]
        ELSE IF inLocal.found
        THEN [err |-> "", loc |-> inLocal.loc, source |-> inLocal.source]
        ELSE IF targetStoreName # ""
        THEN [err |-> "not found in specified store", loc |-> "", source |-> <<>>]
        ELSE [err |-> "not found in any source", loc |-> "", source |-> <<>>]

\* add handleThreadSearch: the project store first when no store is named,
\* then the configured stores; the error says which search failed.
handleThreadSearch(targetStoreName, threadName) ==
    LET inProject == findThreadInProjectStore(threadName)
        inLocal == findThreadInLocalStores(targetStoreName, threadName,
                                           stores, 1)
    IN  IF targetStoreName = "" /\ inProject.found
        THEN [err |-> "", loc |-> inProject.loc, source |-> inProject.source]
        ELSE IF inLocal.err # ""
        THEN [err |-> inLocal.err, loc |-> inLocal.loc, source |-> <<>>]
        ELSE IF inLocal.found
        THEN [err |-> "", loc |-> inLocal.loc, source |-> inLocal.source]
        ELSE IF targetStoreName # ""
        THEN IF \E i \in 1..Len(stores) : stores[i].name = targetStoreName
             THEN [err |-> "not found in specified store", loc |-> "", source |-> <<>>]
             ELSE [err |-> "unknown store", loc |-> "", source |-> <<>>]
        ELSE [err |-> "not found in any source", loc |-> "", source |-> <<>>]

\* add promptUserForOverwrite: an answer, or "error" when reading the input
\* fails.
promptUserForOverwrite(faults) ==
    Decide \cup (IF "prompt" \in faults THEN {"error"} ELSE {})

\* add handleExistingFileConflict: the owner is compared by its recorded
\* source with the source of the thread being added.
handleExistingFileConflict(cfg, dsk, rel, displayCurrentThreadSource, faults) ==
    IF dsk[rel] # Absent
    THEN LET o == IsFileOwned(cfg, rel)
             i == IndexOf(cfg, o.owner)
             ownerThreadSourceFromConfig ==
                 IF i = 0 \/ cfg[i].source = <<>> THEN <<o.owner>> ELSE cfg[i].source
         IN  IF o.isOwned /\ ownerThreadSourceFromConfig = displayCurrentThreadSource
             THEN {[shouldOverwrite |-> TRUE, asked |-> FALSE, answer |-> "",
                    err |-> ""]}
             ELSE {[shouldOverwrite |-> (choice = "yes"), asked |-> TRUE,
                    answer |-> IF choice = "error" THEN "" ELSE choice,
                    err |-> IF choice = "error" THEN "prompt" ELSE ""]
                   : choice \in promptUserForOverwrite(faults)}
    ELSE {[shouldOverwrite |-> TRUE, asked |-> FALSE, answer |-> "", err |-> ""]}

\* add _processFileCopy: the parent directory is created first, then the
\* conflict is decided, then the file is read from the source and written
\* and its key computed.  Any error stops the command.
processFileCopy(st, currentThreadName, loc, displayCurrentThreadSource, rel) ==
    LET destFileDir == Dir(rel)
        relDir == IF destFileDir = <<Dot>> THEN RootKey ELSE destFileDir \o <<Slash>>
        o == IsFileOwned(st.cfg, rel)
        drs2 == MkdirAll(st.dirs, rel)
        ev(asked, answer, written) ==
            Event(currentThreadName, rel, st, o, FALSE, asked, answer, written)
        outcomes(c) ==
            IF c.err # ""
            THEN {Failed(st, st.cfg, drs2, ev(c.asked, c.answer, FALSE), c.err)}
            ELSE IF ~c.shouldOverwrite
            THEN {[st EXCEPT !.dirs = drs2,
                             !.events = Append(@, ev(c.asked, c.answer, FALSE))]}
            ELSE {[st EXCEPT !.dirs = drs2,
                             !.disk[rel] = SourceContent(loc, currentThreadName),
                             !.written = AddToFiles(@, relDir, Split(rel).file[1]),
                             !.events = Append(@, ev(c.asked, c.answer, TRUE))]}
                 \cup {Failed(st, st.cfg, drs2, ev(c.asked, c.answer, FALSE), e)
                       : e \in (IF "unreadable" \in st.faults THEN {"read source"}
                                ELSE {})
                               \cup (IF "write" \in st.faults THEN {"write"} ELSE {})}
    IN  (IF MkdirAllCanFail(st.dirs, rel, st.faults)
         THEN {Failed(st, st.cfg, st.dirs, ev(FALSE, "", FALSE), "mkdir")}
         ELSE {})
        \cup
        UNION {outcomes(c)
               : c \in handleExistingFileConflict(st.cfg, st.disk, rel,
                           displayCurrentThreadSource, st.faults)}

\* add copyDir / copyDirWithBasePath over the regular files of the tree.  An
\* entry whose file information cannot be obtained (it vanished after the
\* directory was read) stops the command.
RECURSIVE copyDir(_, _, _, _, _)
copyDir(st, currentThreadName, loc, displayCurrentThreadSource, todo) ==
    IF todo = <<>> \/ st.err # "" THEN {st}
    ELSE (IF "vanished" \in st.faults
          THEN {Failed(st, st.cfg, st.dirs,
                       Event(currentThreadName, Head(todo), st,
                             IsFileOwned(st.cfg, Head(todo)), TRUE, FALSE, "", FALSE),
                       "source info")}
          ELSE {})
         \cup
         UNION {copyDir(s2, currentThreadName, loc, displayCurrentThreadSource,
                        Tail(todo))
                : s2 \in processFileCopy(st, currentThreadName, loc,
                                         displayCurrentThreadSource, Head(todo))}

\* Mutant: the key of a directory that lost its last file is kept, with an
\* empty list.
removeFileFromOtherThreads_KeepsKey(cfg, currentThreadName, dirToRemove, fileToRemove) ==
    [i \in 1..Len(cfg) |->
        IF cfg[i].name = currentThreadName THEN cfg[i]
        ELSE IF dirToRemove \in DOMAIN cfg[i].files
                /\ fileToRemove \in cfg[i].files[dirToRemove]
        THEN [cfg[i] EXCEPT !.files[dirToRemove] = @ \ {fileToRemove}]
        ELSE cfg[i]]

\* add removeFileFromOtherThreads: the key is looked up as given.
removeFileFromOtherThreads(cfg, currentThreadName, dirToRemove, fileToRemove) ==
    [i \in 1..Len(cfg) |->
        IF cfg[i].name = currentThreadName THEN cfg[i]
        ELSE IF dirToRemove \in DOMAIN cfg[i].files
                /\ fileToRemove \in cfg[i].files[dirToRemove]
        THEN IF cfg[i].files[dirToRemove] = {fileToRemove}
             THEN [cfg[i] EXCEPT !.files = DeleteKey(@, dirToRemove)]
             ELSE [cfg[i] EXCEPT !.files[dirToRemove] = @ \ {fileToRemove}]
        ELSE cfg[i]]

RECURSIVE removeFromOthers(_, _, _)
removeFromOthers(cfg, currentThreadName, pairs) ==
    IF pairs = <<>> THEN cfg
    ELSE removeFromOthers(removeFileFromOtherThreads(cfg, currentThreadName,
                                                     Head(pairs)[1], Head(pairs)[2]),
                          currentThreadName, Tail(pairs))

\* The update of an existing thread's files: each directory of filesByDir
\* replaces the entry of the same key.
mergeFiles(old, filesByDir) ==
    [d \in DOMAIN old \cup DOMAIN filesByDir |->
        IF d \in DOMAIN filesByDir THEN filesByDir[d] ELSE old[d]]

\* Mutant: a thread the manifest already has is taken out and its updated
\* record is appended at the end.
updateLoomConfig_ReAddMovesToEnd(cfg, threadName, source, filesByDir) ==
    LET stripped == removeFromOthers(cfg, threadName, SetToSeq(Pairs(filesByDir)))
        foundThreadIndex == IndexOf(stripped, threadName)
    IN  IF foundThreadIndex # 0
        THEN Append(SelectSeq(stripped, LAMBDA t : t.name # threadName),
                    [stripped[foundThreadIndex] EXCEPT
                        !.source = source, !.files = mergeFiles(@, filesByDir)])
        ELSE Append(stripped, [name |-> threadName, source |-> source,
                               files |-> filesByDir])

\* Mutant: the thread is always appended as a new record.
updateLoomConfig_AlwaysAppends(cfg, threadName, source, filesByDir) ==
    LET stripped == removeFromOthers(cfg, threadName, SetToSeq(Pairs(filesByDir)))
    IN  Append(stripped, [name |-> threadName, source |-> source,
                          files |-> filesByDir])

\* add updateLoomConfig
updateLoomConfig(cfg, threadName, source, filesByDir) ==
    LET stripped == removeFromOthers(cfg, threadName, SetToSeq(Pairs(filesByDir)))
        foundThreadIndex == IndexOf(stripped, threadName)
    IN  IF foundThreadIndex # 0
        THEN [stripped EXCEPT ![foundThreadIndex].source = source,
                              ![foundThreadIndex].files = mergeFiles(@, filesByDir)]
        ELSE Append(stripped, [name |-> threadName, source |-> source,
                               files |-> filesByDir])

\* The add command: the outcomes of one run under the given failures.  A
\* source path that is not a directory cannot be read (os.ReadDir).  The
\* manifest is written only after every file was copied without error.
Add(cfg, dsk, drs, fullThreadArg, faults) ==
    LET args == parseAddArgs(fullThreadArg)
        found == handleThreadSearch(args.store, args.thread)
        st0 == [cfg |-> cfg, disk |-> dsk, dirs |-> drs, written |-> EmptyFiles,
                events |-> <<>>, err |-> "", faults |-> faults]
        failed(e) == {[cfg |-> cfg, disk |-> dsk, dirs |-> drs, events |-> <<>>,
                       err |-> e, thread |-> args.thread, source |-> <<>>,
                       loc |-> ""]}
    IN  IF args.err # "" THEN failed(args.err)
        ELSE IF found.err # "" THEN failed(found.err)
        ELSE IF ThreadDirKind(found.loc, args.thread) # "dir"
        THEN {[cfg |-> cfg, disk |-> dsk, dirs |-> drs, events |-> <<>>,
               err |-> "read source directory", thread |-> args.thread,
               source |-> found.source, loc |-> found.loc]}
        ELSE {[cfg |-> IF s.err = ""
                       THEN updateLoomConfig(s.cfg, args.thread, found.source, s.written)
                       ELSE cfg,
               disk |-> s.disk, dirs |-> s.dirs, events |-> s.events, err |-> s.err,
               thread |-> args.thread, source |-> found.source, loc |-> found.loc]
              : s \in copyDir(st0, args.thread, found.loc, found.source,
                              SetToSeq(SourceTree(found.loc, args.thread)))}

----------------------------------------------------------------------------
(* remove *)

\* os.ReadDir(dir) returns no entry: no file and no directory below it.
DirIsEmpty(dsk, drs, d) ==
    /\ \A p \in DOMAIN dsk : dsk[p] # Absent => Dir(p) # d
    /\ \A e \in drs : e = d \/ Dir(e) # d

\* Mutant: every file of the key's directory is deleted, listed or not.
RemoveKeyFiles_WholeDir(dsk, files, d) ==
    [p \in DOMAIN dsk |-> IF Dir(p) = Clean(d) THEN Absent ELSE dsk[p]]

\* os.Remove of the files listed under one key.  A file that cannot be
\* deleted stays; the failure is printed as a warning.
RemoveKeyFiles(dsk, files, d) ==
    [p \in DOMAIN dsk |->
        IF (\E f \in files[d] : Join(d, <<f>>) = p) /\ dsk[p] # Undeletable
        THEN Absent ELSE dsk[p]]

\* os.Remove of every listed file of one thread.
RECURSIVE RemoveListedFiles(_, _, _)
RemoveListedFiles(dsk, files, K) ==
    IF K = {} THEN dsk
    ELSE LET d == CHOOSE k \in K : TRUE
         IN  RemoveListedFiles(RemoveKeyFiles(dsk, files, d), files, K \ {d})

\* The directories named by the keys of a thread.
KeyDirs(thread) == {Clean(d) : d \in DOMAIN thread.files}

\* One directory is removed when it is not the project root, is on disk and
\* has no entry.
RemoveDirIfEmpty(dsk, drs, dirPath) ==
    IF dirPath # <<Dot>> /\ dirPath \in drs /\ DirIsEmpty(dsk, drs, dirPath)
    THEN drs \ {dirPath} ELSE drs

\* remove removeThreadFiles: key by key, the files of the key are deleted and
\* then its directory if that leaves it empty.  The keys are visited in the
\* order of a Go map iteration, which is any order: the set of outcomes.
RECURSIVE removeThreadFiles(_, _, _, _)
removeThreadFiles(dsk, drs, files, K) ==
    IF K = {} THEN {[disk |-> dsk, dirs |-> drs]}
    ELSE UNION {LET dsk2 == RemoveKeyFiles(dsk, files, d)
                IN  removeThreadFiles(dsk2, RemoveDirIfEmpty(dsk2, drs, Clean(d)),
                                      files, K \ {d})
                : d \in K}

\* Mutant: a listed file that could not be deleted fails the command, and
\* the manifest is not written.
removeThreadAction_StopsOnFailure(cfg, dsk, drs, threadName) ==
    LET I == {i \in 1..Len(cfg) : cfg[i].name = threadName}
        threadToRemove == cfg[CHOOSE i \in I : \A j \in I : j <= i]
        updatedThreads == SelectSeq(cfg, LAMBDA t : t.name # threadName)
    IN  IF I = {}
        THEN {[cfg |-> cfg, disk |-> dsk, dirs |-> drs, err |-> "thread not found"]}
        ELSE {IF \E p \in OwnedPaths(threadToRemove) : r.disk[p] # Absent
              THEN [cfg |-> cfg, disk |-> r.disk, dirs |-> r.dirs,
                    err |-> "failed to remove file"]
              ELSE [cfg |-> updatedThreads, disk |-> r.disk, dirs |-> r.dirs,
                    err |-> ""]
              : r \in removeThreadFiles(dsk, drs, threadToRemove.files,
                                        DOMAIN threadToRemove.files)}

\* Mutant: a thread that is not in the manifest is removed "successfully".
removeThreadAction_UnknownIsSuccess(cfg, dsk, drs, threadName) ==
    LET I == {i \in 1..Len(cfg) : cfg[i].name = threadName}
        threadToRemove == cfg[CHOOSE i \in I : \A j \in I : j <= i]
        updatedThreads == SelectSeq(cfg, LAMBDA t : t.name # threadName)
    IN  IF I = {}
        THEN {[cfg |-> cfg, disk |-> dsk, dirs |-> drs, err |-> ""]}
        ELSE {[cfg |-> updatedThreads, disk |-> r.disk, dirs |-> r.dirs, err |-> ""]
              : r \in removeThreadFiles(dsk, drs, threadToRemove.files,
                                        DOMAIN threadToRemove.files)}

\* Mutant: the thread's files are deleted but its record is kept.
removeThreadAction_KeepsRecord(cfg, dsk, drs, threadName) ==
    LET I == {i \in 1..Len(cfg) : cfg[i].name = threadName}
        threadToRemove == cfg[CHOOSE i \in I : \A j \in I : j <= i]
    IN  IF I = {}
        THEN {[cfg |-> cfg, disk |-> dsk, dirs |-> drs, err |-> "thread not found"]}
        ELSE {[cfg |-> cfg, disk |-> r.disk, dirs |-> r.dirs, err |-> ""]
              : r \in removeThreadFiles(dsk, drs, threadToRemove.files,
                                        DOMAIN threadToRemove.files)}

\* remove findThreadInConfig / removeThreadAction: the outcomes of one run.
removeThreadAction(cfg, dsk, drs, threadName) ==
    LET I == {i \in 1..Len(cfg) : cfg[i].name = threadName}
        threadToRemove == cfg[CHOOSE i \in I : \A j \in I : j <= i]
        updatedThreads == SelectSeq(cfg, LAMBDA t : t.name # threadName)
    IN  IF I = {}
        THEN {[cfg |-> cfg, disk |-> dsk, dirs |-> drs, err |-> "thread not found"]}
        ELSE {[cfg |-> updatedThreads, disk |-> r.disk, dirs |-> r.dirs, err |-> ""]
              : r \in removeThreadFiles(dsk, drs, threadToRemove.files,
                                        DOMAIN threadToRemove.files)}

\* remove removeThreadFilesAndCollectDirs over the threads from index i on.
RECURSIVE removeThreadFilesAndCollectDirs(_, _, _)
removeThreadFilesAndCollectDirs(cfg, dsk, i) ==
    IF i > Len(cfg) THEN [disk |-> dsk, directoriesToRemove |-> {}]
    ELSE LET rest == removeThreadFilesAndCollectDirs(
                         cfg, RemoveListedFiles(dsk, cfg[i].files, DOMAIN cfg[i].files),
                         i + 1)
         IN  [rest EXCEPT !.directoriesToRemove = @ \cup KeyDirs(cfg[i])]

\* remove removeEmptyDirectories: the collected directories are visited in
\* the order of a Go map iteration, which is any order: the set of outcomes.
RECURSIVE removeEmptyDirectories(_, _, _)
removeEmptyDirectories(dsk, drs, directoriesToRemove) ==
    IF directoriesToRemove = {} THEN {drs}
    ELSE UNION {removeEmptyDirectories(dsk, RemoveDirIfEmpty(dsk, drs, dirPath),
                                       directoriesToRemove \ {dirPath})
                : dirPath \in directoriesToRemove}

\* remove removeAllThreadsAction: all files of all threads first, then the
\* collected directories, then the thread list is cleared.
removeAllThreadsAction(cfg, dsk, drs) ==
    LET c == removeThreadFilesAndCollectDirs(cfg, dsk, 1)
    IN  IF cfg = <<>>
        THEN {[cfg |-> cfg, disk |-> dsk, dirs |-> drs, err |-> ""]}
        ELSE {[cfg |-> <<>>, disk |-> c.disk, dirs |-> drs2, err |-> ""]
              : drs2 \in removeEmptyDirectories(c.disk, drs, c.directoriesToRemove)}

----------------------------------------------------------------------------
(* The state machine *)

Snapshot == [manifest |-> manifest, disk |-> disk, dirs |-> dirs]

EmptyProject ==
    [manifest |-> <<>>, disk |-> [p \in AllPaths |-> Absent], dirs |-> {}]

\* last is the record of the command that is running or has just returned:
\* its arguments, its error, its per-file log and the state it started from.
\* Between two commands there is none.
NoCommand ==
    [op |-> "none", arg |-> <<>>, err |-> "", events |-> <<>>, pre |-> EmptyProject]

\* After `loom init` in an empty directory.
Init ==
    /\ manifest = <<>>
    /\ disk = [p \in AllPaths |-> Absent]
    /\ dirs = {}
    /\ last = NoCommand
    /\ stores = GlobalStores
    /\ sources = GlobalSources

\* One run of `loom add` under the given failures.
AddWith(faults) ==
    /\ last = NoCommand
    /\ \E fullThreadArg \in AddArgs :
        \E r \in Add(manifest, disk, dirs, fullThreadArg, faults) :
            /\ manifest' = r.cfg
            /\ disk' = r.disk
            /\ dirs' = r.dirs
            /\ last' = [op |-> "add",
                        arg |-> <<r.thread, r.source, fullThreadArg, r.loc>>,
                        err |-> r.err, events |-> r.events, pre |-> Snapshot]
            /\ UNCHANGED <<stores, sources>>

\* One run of `loom weave` under the given failures.
WeaveWith(faults) ==
    /\ last = NoCommand
    /\ \E threadNameToWeave \in ThreadNames \cup {""} :
        \E r \in Weave(manifest, disk, dirs, threadNameToWeave, faults) :
            /\ manifest' = r.cfg
            /\ disk' = r.disk
            /\ dirs' = r.dirs
            /\ last' = [op |-> "weave", arg |-> <<threadNameToWeave>>, err |-> r.err,
                        events |-> r.events, pre |-> Snapshot]
            /\ UNCHANGED <<stores, sources>>

\* The commands in an environment without failures.
AddOp == AddWith({})
WeaveOp == WeaveWith({})

RemoveOp ==
    /\ last = NoCommand
    /\ \E threadName \in ThreadNames :
        \E r \in removeThreadAction(manifest, disk, dirs, threadName) :
            /\ manifest' = r.cfg
            /\ disk' = r.disk
            /\ dirs' = r.dirs
            /\ last' = [op |-> "remove", arg |-> <<threadName>>, err |-> r.err,
                        events |-> <<>>, pre |-> Snapshot]
            /\ UNCHANGED <<stores, sources>>

RemoveAllOp ==
    /\ last = NoCommand
    /\ \E r \in removeAllThreadsAction(manifest, disk, dirs) :
           /\ manifest' = r.cfg
           /\ disk' = r.disk
           /\ dirs' = r.dirs
           /\ last' = [op |-> "remove", arg |-> <<"*">>, err |-> r.err,
                       events |-> <<>>, pre |-> Snapshot]
           /\ UNCHANGED <<stores, sources>>

\* One call of LoomConfig.IsFileOwned for a project path: the method reads
\* the configuration and returns; it assigns to nothing but its locals.
IsFileOwnedCall ==
    /\ last = NoCommand
    /\ \E relPath \in AllPaths :
          last' = [op |-> "query", arg |-> <<relPath>>, err |-> "",
                   events |-> <<IsFileOwned(manifest, relPath)>>,
                   pre |-> Snapshot]
    /\ UNCHANGED <<manifest, disk, dirs, stores, sources>>

\* The command's process exits; its log is gone.
Exit ==
    /\ last # NoCommand
    /\ last' = NoCommand
    /\ UNCHANGED <<manifest, disk, dirs, stores, sources>>

\* Between two commands the user deletes a project file by hand.
UserDelete ==
    /\ last = NoCommand
    /\ \E p \in AllPaths :
        /\ disk[p] # Absent
        /\ disk' = [disk EXCEPT ![p] = Absent]
        /\ UNCHANGED <<manifest, dirs, last, stores, sources>>

\* Between two commands the user writes a project file by hand.
UserWrite ==
    /\ last = NoCommand
    /\ \E p \in AllPaths :
        /\ disk[p] # UserContent
        /\ disk' = [disk EXCEPT ![p] = UserContent]
        /\ dirs' = dirs \cup (IF Dir(p) = <<Dot>> THEN {} ELSE {Dir(p)})
        /\ UNCHANGED <<manifest, last, stores, sources>>

Next ==
    AddOp \/ WeaveOp \/ RemoveOp \/ RemoveAllOp \/ Exit \/ UserDelete \/ UserWrite

Spec == Init /\ [][Next]_vars

----------------------------------------------------------------------------
(* Vocabulary of the properties *)

\* Exclusive: no path is listed by two threads.
Exclusive(cfg) == \A p \in AllPaths : Cardinality(Owners(cfg, p)) <= 1

TypeOK ==
    /\ \A i \in 1..Len(manifest) : manifest[i].name \in ThreadNames
    /\ \A p \in AllPaths : disk[p] # Absent /\ Dir(p) # <<Dot>> => Dir(p) \in dirs

\* The thread of that name lists the path.
Lists(cfg, name, p) == IndexOf(cfg, name) # 0 /\ ThreadLists(cfg[IndexOf(cfg, name)], p)

Succeeded(op) == last.op = op /\ last.err = ""
IsAdd == Succeeded("add")
IsWeaveAll == Succeeded("weave") /\ last.arg = <<"">>
IsTargetedWeave == Succeeded("weave") /\ last.arg # <<"">>

EventIdx == 1..Len(last.events)

\* No later entry of the log is about the same path: the state after the
\* command shows what this entry left.
LastTouch(k) == \A j \in EventIdx : j > k => last.events[j].path # last.events[k].path

\* No later entry of the log wrote the same path.
LastWrite(k) ==
    \A j \in EventIdx :
        j > k /\ last.events[j].path = last.events[k].path => ~last.events[j].written

\* The path holds bytes of one of the thread's source trees.
HoldsSourceOf(p, threadName) == Len(disk[p]) = 2 /\ disk[p][2] = threadName

\* A conflict over an existing file that another thread owns, answered yes.
YesConflict(e) ==
    e.existed /\ e.isOwned /\ e.owner # e.thread /\ e.asked /\ e.answer = "yes"

----------------------------------------------------------------------------
(* Properties *)

\* C1: exclusivity.  A successful add, weave or remove that starts from a
\* manifest in which no path is listed by two threads ends in such a
\* manifest.
C1_Exclusivity ==
    (last.op \in {"add", "weave", "remove"} /\ last.err = ""
        /\ Exclusive(last.pre.manifest))
    => Exclusive(manifest)

\* C2 as stated: after a successful add or weave, every conflict over a file
\* owned by another thread that was answered yes leaves the file listed
\* under the winner and not under the loser.
C2_TransferAtomicity ==
    (IsAdd \/ Succeeded("weave")) =>
        \A k \in EventIdx :
            LET e == last.events[k]
            IN  YesConflict(e) =>
                    /\ Lists(manifest, e.thread, e.path)
                    /\ ~Lists(manifest, e.owner, e.path)

\* C2 amended: the file is never listed under both threads of the conflict,
\* and it is listed under the winner and not under the loser unless a later
\* thread of the same run wrote the file in turn.
C2_TransferAtomicityLastWinner ==
    (IsAdd \/ Succeeded("weave")) =>
        \A k \in EventIdx :
            LET e == last.events[k]
            IN  YesConflict(e) =>
                    /\ ~(Lists(manifest, e.thread, e.path)
                         /\ Lists(manifest, e.owner, e.path))
                    /\ LastWrite(k) =>
                           /\ Lists(manifest, e.thread, e.path)
                           /\ ~Lists(manifest, e.owner, e.path)

\* An add or a weave with a yes-answered conflict whose winner kept the
\* file that the loser listed before.
C2_Witness ==
    /\ IsAdd \/ Succeeded("weave")
    /\ \E k \in EventIdx :
           /\ YesConflict(last.events[k])
           /\ LastWrite(k)
           /\ Lists(last.pre.manifest, last.events[k].owner, last.events[k].path)

\* C3: a targeted weave never changes the content of a file that the
\* ownership query attributes to a thread other than the target.
C3_TargetedWeaveScope ==
    IsTargetedWeave =>
        \A p \in AllPaths :
            LET o == IsFileOwned(last.pre.manifest, p)
            IN  o.isOwned /\ o.owner # last.arg[1] => disk[p] = last.pre.disk[p]

\* C4: in add and weave-all, an existing file owned by a thread of another
\* name is asked about; after no or skip its content is unchanged, it stays
\* with its owner and the processed thread does not list it.
C4_OwnedByOtherAsks ==
    (IsAdd \/ IsWeaveAll) =>
        \A k \in EventIdx :
            LET e == last.events[k]
            IN  e.existed /\ e.isOwned /\ e.owner # e.thread /\ ~e.skipped =>
                    /\ e.asked
                    /\ (e.answer \in {"no", "skip"} /\ LastTouch(k)) =>
                           /\ disk[e.path] = e.before
                           /\ Lists(manifest, e.owner, e.path)
                           /\ ~Lists(manifest, e.thread, e.path)

\* C5: in every mode an existing file owned by the processed thread is
\* written without a prompt and stays in that thread's files.
C5_OwnedBySelfRewrites ==
    (IsAdd \/ Succeeded("weave")) =>
        \A k \in EventIdx :
            LET e == last.events[k]
            IN  e.existed /\ e.isOwned /\ e.owner = e.thread /\ ~e.skipped =>
                    /\ ~e.asked
                    /\ e.written
                    /\ LastTouch(k) =>
                           /\ HoldsSourceOf(e.path, e.thread)
                           /\ Lists(manifest, e.thread, e.path)

\* C6: in add and weave-all an existing file that no thread owns is asked
\* about; yes writes it and records it under the processed thread; no or
\* skip leaves its content and leaves it unowned.
C6_UnownedAsks ==
    (IsAdd \/ IsWeaveAll) =>
        \A k \in EventIdx :
            LET e == last.events[k]
            IN  e.existed /\ ~e.isOwned /\ ~e.skipped =>
                    /\ e.asked
                    /\ (e.answer = "yes" /\ LastTouch(k)) =>
                           /\ HoldsSourceOf(e.path, e.thread)
                           /\ Lists(manifest, e.thread, e.path)
                    /\ (e.answer \in {"no", "skip"} /\ LastTouch(k)) =>
                           /\ disk[e.path] = e.before
                           /\ Owners(manifest, e.path) = {}

\* A weave-all asked about two existing files that no thread owned, one
\* answered yes and one, written by the user, answered no or skip.
C6_Witness ==
    /\ IsWeaveAll
    /\ \E k \in EventIdx :
           /\ last.events[k].existed /\ ~last.events[k].isOwned
           /\ last.events[k].asked /\ last.events[k].answer = "yes"
           /\ LastTouch(k)
    /\ \E k \in EventIdx :
           /\ last.events[k].existed /\ ~last.events[k].isOwned
           /\ last.events[k].asked /\ last.events[k].answer \in {"no", "skip"}
           /\ last.events[k].before = UserContent
           /\ LastTouch(k)

\* C7: in every mode a file that does not exist is written without a
\* prompt, its directory exists afterwards, and the processed thread is the
\* owner the query reports.
C7_AbsentIsWritten ==
    (IsAdd \/ Succeeded("weave")) =>
        \A k \in EventIdx :
            LET e == last.events[k]
            IN  ~e.existed /\ ~e.skipped =>
                    /\ ~e.asked
                    /\ e.written
                    /\ Dir(e.path) # <<Dot>> => Dir(e.path) \in dirs
                    /\ LastTouch(k) =>
                           /\ HoldsSourceOf(e.path, e.thread)
                           /\ IsFileOwned(manifest, e.path) =
                                  [owner |-> e.thread, isOwned |-> TRUE]

\* C8: in a targeted weave an existing file that the query attributes to
\* another thread is written without a prompt, removed from that thread and
\* recorded under the target.
C8_TargetedTakesOver ==
    IsTargetedWeave =>
        \A k \in EventIdx :
            LET e == last.events[k]
            IN  e.existed /\ e.isOwned /\ e.owner # e.thread /\ ~e.skipped =>
                    /\ ~e.asked
                    /\ HoldsSourceOf(e.path, e.thread)
                    /\ ~Lists(manifest, e.owner, e.path)
                    /\ Lists(manifest, e.thread, e.path)

\* A targeted weave took a file over from the thread the query named.
C8_Witness ==
    /\ IsTargetedWeave
    /\ \E k \in EventIdx :
           LET e == last.events[k]
           IN  /\ e.existed /\ e.isOwned /\ e.owner # e.thread /\ ~e.skipped
               /\ Lists(last.pre.manifest, e.owner, e.path)
               /\ e.before # disk[e.path]

\* The paths the log says were written for a thread and that no other
\* thread wrote later in the same run.
KeptWrites(threadName) ==
    {last.events[k].path : k \in
        {j \in EventIdx : /\ last.events[j].thread = threadName
                          /\ last.events[j].written
                          /\ LastWrite(j)}}

\* The threads a weave processed: the target (or all), source directory
\* present.
WeaveProcessed ==
    {i \in 1..Len(last.pre.manifest) :
        /\ last.arg[1] \in {"", last.pre.manifest[i].name}
        /\ LET src == determineThreadSourcePath(last.pre.manifest[i])
           IN  ThreadDirKind(src.loc, src.thread) # "none"}

\* C9: replace, never merge.  After a successful add of T, T lists exactly
\* the files written for it; after a successful weave, so does every thread
\* the weave processed.
C9_ReplaceNeverMerge ==
    /\ IsAdd =>
           OwnedPaths(manifest[IndexOf(manifest, last.arg[1])]) = KeptWrites(last.arg[1])
    /\ Succeeded("weave") =>
           \A i \in WeaveProcessed :
               OwnedPaths(manifest[i]) = KeptWrites(manifest[i].name)

\* A conflict: the file exists and the query does not attribute it to the
\* thread that is about to write it.
NoConflict(events) ==
    \A k \in 1..Len(events) :
        ~(events[k].existed /\ (~events[k].isOwned \/ events[k].owner # events[k].thread))

\* C10: idempotence.  After a successful weave without conflict, running
\* the same weave again, if it meets no conflict either, changes neither
\* the manifest nor the disk.
C10_WeaveIdempotent ==
    (Succeeded("weave") /\ NoConflict(last.events)) =>
        \A r \in Weave(manifest, disk, dirs, last.arg[1], {}) :
            NoConflict(r.events) =>
                /\ r.err = ""
                /\ r.cfg = manifest
                /\ r.disk = disk

\* A weave that created files without conflict, and whose repetition
\* writes them again without conflict.
C10_Witness ==
    /\ Succeeded("weave") /\ NoConflict(last.events)
    /\ \E k \in EventIdx : last.events[k].written
    /\ manifest # last.pre.manifest
    /\ \E r \in Weave(manifest, disk, dirs, last.arg[1], {}) :
           /\ NoConflict(r.events)
           /\ \E k \in 1..Len(r.events) : r.events[k].written

\* The target's entry in the manifest a targeted weave started from.
TargetBefore == last.pre.manifest[IndexOf(last.pre.manifest, last.arg[1])]

\* C11: targeted replay.  A targeted weave of A handles only files that A
\* listed before it; afterwards A lists a subset of what it listed before,
\* and no path outside that list has changed on disk.
C11_TargetedReplay ==
    IsTargetedWeave =>
        /\ \A k \in EventIdx :
               /\ last.events[k].thread = last.arg[1]
               /\ last.events[k].path \in OwnedPaths(TargetBefore)
        /\ OwnedPaths(manifest[IndexOf(manifest, last.arg[1])])
               \subseteq OwnedPaths(TargetBefore)
        /\ \A p \in AllPaths \ OwnedPaths(TargetBefore) : disk[p] = last.pre.disk[p]

\* A targeted weave wrote a file of the target while the target's source
\* tree held another file that the target did not list and that was not on
\* disk.
C11_Witness ==
    /\ IsTargetedWeave
    /\ \E k \in EventIdx : last.events[k].written
    /\ LET src == determineThreadSourcePath(TargetBefore)
       IN  \E p \in SourceTree(src.loc, src.thread) \ OwnedPaths(TargetBefore) :
               disk[p] = Absent

\* The location of the source tree an add used, from the source it recorded.
LocOfSource(source) ==
    IF source[1] = "project:" THEN "project"
    ELSE LET i == CHOOSE j \in 1..Len(stores) : stores[j].name = source[1]
         IN  stores[i].path

\* The source tree of the add that has just succeeded.
AddedTree == SourceTree(LocOfSource(last.arg[2]), last.arg[1])

\* The files map that lists exactly the paths of F under normalized keys.
FilesOf(F) ==
    [d \in {normalizeDir(Split(p).dir) : p \in F} |->
        {Split(p).file[1] : p \in {q \in F : normalizeDir(Split(q).dir) = d}}]

\* C12: happy add.  A successful add whose source files have no destination
\* on disk writes every one of them with the source's bytes and records
\* for the thread exactly those files under normalized directory keys.
C12_HappyAdd ==
    (IsAdd /\ \A p \in AddedTree : last.pre.disk[p] = Absent) =>
        /\ \A p \in AddedTree :
               disk[p] = SourceContent(LocOfSource(last.arg[2]), last.arg[1])
        /\ manifest[IndexOf(manifest, last.arg[1])].files = FilesOf(AddedTree)

\* C12 for a thread the manifest does not hold yet.
C12_HappyFirstAdd ==
    (IsAdd /\ IndexOf(last.pre.manifest, last.arg[1]) = 0
           /\ \A p \in AddedTree : last.pre.disk[p] = Absent) =>
        /\ \A p \in AddedTree :
               disk[p] = SourceContent(LocOfSource(last.arg[2]), last.arg[1])
        /\ manifest[IndexOf(manifest, last.arg[1])].files = FilesOf(AddedTree)

----------------------------------------------------------------------------
(* remove over nested directories *)

\* Destination files under nested directories, and those directories.
NestedF == <<"x", Slash, "f">>
NestedG == <<"x", Slash, "y", Slash, "g">>
NestedH == <<"x", Slash, "y", Slash, "h">>
NestedPaths == {NestedF, NestedG, NestedH}
NestedDirs == {<<"x">>, <<"x", Slash, "y">>}

\* The directories above a path, the project root excluded.
RECURSIVE Ancestors(_)
Ancestors(p) == IF Dir(p) = <<Dot>> THEN {} ELSE {Dir(p)} \cup Ancestors(Dir(p))

\* The manifest in which own[p] names the thread that lists p ("" for none);
\* both threads were added from store S.
ManifestOf(own) ==
    << [name |-> "t1", source |-> StoreSource("S"),
        files |-> FilesOf({p \in DOMAIN own : own[p] = "t1"})],
       [name |-> "t2", source |-> StoreSource("S"),
        files |-> FilesOf({p \in DOMAIN own : own[p] = "t2"})] >>

\* A project after adds into nested directories: every file is listed by at
\* most one thread; a file is on disk or was deleted by the user; the
\* directories of the files on disk exist, and others may.
InitRemove ==
    \E own \in [NestedPaths -> {"", "t1", "t2"}] :
      \E present \in SUBSET NestedPaths :
        \E extra \in SUBSET NestedDirs :
            /\ manifest = ManifestOf(own)
            /\ disk = [p \in NestedPaths |->
                          IF p \notin present THEN Absent
                          ELSE IF own[p] = "" THEN UserContent
                          ELSE SourceContent("/S", own[p])]
            /\ dirs = UNION {Ancestors(p) : p \in present}
                      \cup extra \cup UNION {Ancestors(d) : d \in extra}
            /\ last = NoCommand
            /\ stores = GlobalStores
            /\ sources = GlobalSources

NextRemove == RemoveOp \/ RemoveAllOp \/ Exit

SpecRemove == InitRemove /\ [][NextRemove]_vars

IsRemoveAll == Succeeded("remove") /\ last.arg = <<"*">>
IsRemoveOne == Succeeded("remove") /\ last.arg # <<"*">>

\* The paths listed by any thread of a manifest.
AllOwnedPaths(cfg) == UNION {OwnedPaths(cfg[i]) : i \in 1..Len(cfg)}

\* No path is listed by two threads of the manifest.
DistinctFiles(cfg) ==
    \A i, j \in 1..Len(cfg) : i # j => OwnedPaths(cfg[i]) \cap OwnedPaths(cfg[j]) = {}

\* The directories a manifest has keys for, the project root excluded.
OwnedDirs(cfg) == UNION {KeyDirs(cfg[i]) : i \in 1..Len(cfg)} \ {<<Dot>>}

\* C13: remove-all.  For threads owning distinct files, `remove *` leaves no
\* listed file on disk, leaves no owned directory on disk empty, and leaves
\* the thread list empty.
C13_RemoveAll ==
    (IsRemoveAll /\ DistinctFiles(last.pre.manifest)) =>
        /\ \A p \in AllOwnedPaths(last.pre.manifest) : disk[p] = Absent
        /\ \A d \in OwnedDirs(last.pre.manifest) \cap dirs : ~DirIsEmpty(disk, dirs, d)
        /\ manifest = <<>>

\* The part of C13 about files and the manifest.
C13_RemoveAllFiles ==
    (IsRemoveAll /\ DistinctFiles(last.pre.manifest)) =>
        /\ \A p \in AllOwnedPaths(last.pre.manifest) : disk[p] = Absent
        /\ manifest = <<>>

\* The record of the thread a remove by name has just removed.
RemovedThread == last.pre.manifest[IndexOf(last.pre.manifest, last.arg[1])]

\* C14: remove by name.  The thread's record is gone and every other record
\* is as before, in the same order; the files it listed are not on disk and
\* every other file is as before; a directory is deleted only if it is one
\* of the thread's directories and holds no file.
C14_RemoveFrame ==
    IsRemoveOne =>
        /\ manifest = SelectSeq(last.pre.manifest, LAMBDA t : t.name # last.arg[1])
        /\ \A p \in DOMAIN disk :
               IF p \in OwnedPaths(RemovedThread) THEN disk[p] = Absent
               ELSE disk[p] = last.pre.disk[p]
        /\ dirs \subseteq last.pre.dirs
        /\ \A d \in last.pre.dirs \ dirs :
               /\ d \in KeyDirs(RemovedThread)
               /\ \A p \in DOMAIN disk : disk[p] # Absent => Dir(p) # d

\* A thread was removed whose file was on disk, next to a file it did not
\* list in the same directory, while another thread listed files too.
C14_Witness ==
    /\ IsRemoveOne
    /\ \E p \in OwnedPaths(RemovedThread) : last.pre.disk[p] # Absent
    /\ \E p \in DOMAIN disk \ OwnedPaths(RemovedThread) :
           /\ last.pre.disk[p] # Absent
           /\ Dir(p) \in KeyDirs(RemovedThread)
    /\ \E i \in 1..Len(manifest) : OwnedPaths(manifest[i]) # {}

----------------------------------------------------------------------------
(* The commands alone: no edit of the project outside the tool *)

NextTool == AddOp \/ WeaveOp \/ RemoveOp \/ RemoveAllOp \/ Exit

SpecTool == Init /\ [][NextTool]_vars

\* C15: ledger/disk agreement.  When only the tool changes the project,
\* every file a thread lists is on disk, and after a successful remove no
\* file that a removed thread listed is on disk.
C15_LedgerDiskAgreement ==
    /\ \A p \in AllOwnedPaths(manifest) : disk[p] # Absent
    /\ Succeeded("remove") =>
           \A p \in AllOwnedPaths(last.pre.manifest) \ AllOwnedPaths(manifest) :
               disk[p] = Absent

\* A thread whose files were on disk was removed while another thread
\* keeps listing a file.
C15_Witness ==
    /\ IsRemoveOne
    /\ \E p \in OwnedPaths(RemovedThread) : last.pre.disk[p] # Absent
    /\ AllOwnedPaths(manifest) # {}

----------------------------------------------------------------------------
(* The commands in an environment where directories, files and the prompt
   can fail *)

AddFaultOp == AddWith(Faults)
WeaveFaultOp == WeaveWith(Faults)

NextFault == AddFaultOp \/ WeaveFaultOp \/ RemoveOp \/ RemoveAllOp \/ Exit

SpecFault == Init /\ [][NextFault]_vars

\* The errors of creating a directory, writing a file and asking the user.
WriteSideErrors == {"mkdir", "write", "prompt"}

\* C16: failure semantics.  When creating a directory, writing a file or
\* asking the user fails during add or weave, the file it failed on is the
\* last one the command handled, the command returns that error, the
\* manifest is what it was before the command, and no file other than the
\* failing one changed on disk but those written before the failure.
C16_FailureSemantics ==
    last.op \in {"add", "weave"} =>
        \A k \in EventIdx :
            last.events[k].err \in WriteSideErrors =>
                /\ k = Len(last.events)
                /\ last.err = last.events[k].err
                /\ manifest = last.pre.manifest
                /\ \A p \in AllPaths \ {last.events[k].path} :
                       disk[p] # last.pre.disk[p] =>
                           \E j \in 1..(k - 1) :
                               last.events[j].path = p /\ last.events[j].written

\* A weave stopped by such an error after it had taken a file over from
\* another thread and written it, with a file of the run still to come.
C16_Witness ==
    /\ last.op = "weave"
    /\ last.err \in WriteSideErrors
    /\ \E j \in 1..(Len(last.events) - 1) :
           YesConflict(last.events[j]) /\ last.events[j].written
    /\ \E r \in Weave(last.pre.manifest, last.pre.disk, last.pre.dirs, last.arg[1], {}) :
           Len(r.events) > Len(last.events)

\* The errors of a source file that vanished or cannot be read.
SourceErrors == {"source info", "read source"}

\* C17: per-file source errors are not fatal.  No add and no weave fails
\* because one source file vanished or could not be read.
C17_SourceErrorsNotFatal ==
    last.op \in {"add", "weave"} => last.err \notin SourceErrors

\* The part of C17 that the code keeps: a source file that is gone when
\* weave looks for it is skipped and the weave goes on.
C17_WeaveSkipsVanished ==
    last.op = "weave" =>
        \A k \in EventIdx : last.events[k].skipped => last.events[k].err = ""

----------------------------------------------------------------------------
(* Resolution of a thread over store configurations and source layouts *)

StoreS == [name |-> "S", type |-> "local", path |-> "/S"]
StoreS2 == [name |-> "S2", type |-> "local", path |-> "/S2"]
StoreS2Remote == [name |-> "S2", type |-> "github", path |-> "/S2"]

\* Store lists of the global configuration: up to two stores of different
\* names, in either order.
StoreConfigs ==
    {<<>>, <<StoreS>>, <<StoreS2>>, <<StoreS2Remote>>, <<StoreS, StoreS2>>,
     <<StoreS2, StoreS>>, <<StoreS, StoreS2Remote>>, <<StoreS2Remote, StoreS>>}

\* Layouts of the source of thread t1: at each location a directory, a
\* regular file or nothing; no other thread has a source.
SourceLayouts ==
    {f \in [Locations \X ThreadNames -> {"dir", "file", "none"}] :
        \A x \in DOMAIN f : x[2] # "t1" => f[x] = "none"}

InitResolve ==
    /\ manifest = <<>>
    /\ disk = [p \in AllPaths |-> Absent]
    /\ dirs = {}
    /\ last = NoCommand
    /\ stores \in StoreConfigs
    /\ sources \in SourceLayouts

NextResolve == AddOp \/ Exit

SpecResolve == InitResolve /\ [][NextResolve]_vars

\* What the add that has just returned was asked for and what it resolved.
GivenArgs == parseAddArgs(last.arg[3])
NoStoreGiven == last.op = "add" /\ GivenArgs.err = "" /\ GivenArgs.store = ""
StoreGiven == last.op = "add" /\ GivenArgs.err = "" /\ GivenArgs.store # ""
GivenStore == GivenArgs.store
GivenThread == GivenArgs.thread

ResolutionErrors ==
    {"thread name required", "invalid format", "malformed",
     "not found in specified store", "unknown store", "not found in any source"}
Resolved == last.err \notin ResolutionErrors

NothingWritten ==
    /\ manifest = last.pre.manifest
    /\ disk = last.pre.disk
    /\ dirs = last.pre.dirs

\* The locations of the search without a store name, in order: the project
\* store, then the configured local stores.
LocalStores == SelectSeq(stores, LAMBDA st : st.type = "local")
SearchOrder ==
    <<[loc |-> "project", label |-> ProjectSource(GivenThread)]>>
    \o [i \in 1..Len(LocalStores) |->
           [loc |-> LocalStores[i].path, label |-> StoreSource(LocalStores[i].name)]]
KindAt(i) == ThreadDirKind(SearchOrder[i].loc, GivenThread)

\* The locations of the search order that contain the thread: its source
\* directory is there.
Hits == {i \in 1..Len(SearchOrder) : KindAt(i) = "dir"}
FirstHit == SearchOrder[MinOf(Hits)]
ReturnedFirstHit ==
    /\ Resolved
    /\ last.arg[4] = FirstHit.loc
    /\ last.arg[2] = FirstHit.label

\* The locations consulted before the first hit where the thread's source
\* path is a regular file.
FilesBeforeFirstHit == {i \in 1..(MinOf(Hits) - 1) : KindAt(i) = "file"}

\* C18 as stated: without a store name, the first location of the search
\* order that contains the thread is returned, with its label.
C18_SearchOrder ==
    (NoStoreGiven /\ Hits # {}) => ReturnedFirstHit

\* C18 amended: the first location that contains the thread is returned
\* with its label, provided no location consulted before it holds a regular
\* file at the thread's source path; such a file in a configured store ends
\* the search with the malformed-thread error and nothing is written.
C18_SearchOrderUnlessMalformed ==
    (NoStoreGiven /\ Hits # {}) =>
        /\ FilesBeforeFirstHit = {} => ReturnedFirstHit
        /\ (FilesBeforeFirstHit # {} /\ 1 \notin FilesBeforeFirstHit) =>
               last.err = "malformed" /\ NothingWritten

\* Without a store name and with nothing in the project store, the first of
\* two local stores containing the thread was returned and its file written.
C18_Witness ==
    /\ NoStoreGiven
    /\ Hits = {2, 3}
    /\ KindAt(1) = "none"
    /\ last.err = ""
    /\ last.arg[4] = LocalStores[1].path
    /\ disk # last.pre.disk

----------------------------------------------------------------------------
(* Resolution with a store name, and the kinds of resolution failure *)

\* The configured stores that carry the given store name, and those of them
\* that are searched.
NamedStores == {i \in 1..Len(stores) : stores[i].name = GivenStore}
NamedLocalStores == {i \in NamedStores : stores[i].type = "local"}
KindInStore(i) == ThreadDirKind(stores[i].path, GivenThread)

\* C19: when a store name is given, only the configured store of that name
\* is searched.  A resolved thread comes from a store of that name, which
\* holds the thread directory, and carries that store's label; the project
\* store and the other configured stores never supply it.
C19_OnlyNamedStore ==
    (StoreGiven /\ Resolved) =>
        /\ last.arg[4] # "project"
        /\ last.arg[2] = StoreSource(GivenStore)
        /\ \E i \in NamedLocalStores :
              /\ last.arg[4] = stores[i].path
              /\ KindInStore(i) = "dir"

\* The named store is configured after another store; that store and the
\* project store both hold the thread, and the add took it from the named
\* store and wrote its file.
C19_Witness ==
    /\ StoreGiven
    /\ GivenStore = "S2"
    /\ stores = <<StoreS, StoreS2>>
    /\ ThreadDirKind("project", GivenThread) = "dir"
    /\ ThreadDirKind("/S", GivenThread) = "dir"
    /\ last.err = ""
    /\ last.arg[4] = "/S2"
    /\ disk # last.pre.disk

\* C20: resolution failures have distinct kinds.  A named store that is not
\* configured gives the unknown-store error; a named store that is
\* configured and has nothing at the thread's source path gives the
\* not-found-in-specified-store error; without a store name, nothing at
\* the thread's source path in the project store and in every searched
\* store gives the not-found-in-any-source error.  Nothing is written in
\* any of the three cases.
C20_ResolutionErrorKinds ==
    /\ (StoreGiven /\ NamedStores = {}) =>
           last.err = "unknown store" /\ NothingWritten
    /\ (StoreGiven /\ NamedStores # {}
          /\ \A i \in NamedLocalStores : KindInStore(i) = "none") =>
           last.err = "not found in specified store" /\ NothingWritten
    /\ (NoStoreGiven /\ \A i \in 1..Len(SearchOrder) : KindAt(i) = "none") =>
           last.err = "not found in any source" /\ NothingWritten

\* After an add that recorded the thread from the project store, an add
\* naming a configured store that lacks the thread failed.
C20_Witness ==
    /\ StoreGiven
    /\ NamedLocalStores # {}
    /\ last.err = "not found in specified store"
    /\ ThreadDirKind("project", GivenThread) = "dir"
    /\ last.pre.manifest # <<>>

\* The other two kinds of failure are reached as well.
C20_UnknownStoreReached ==
    StoreGiven /\ last.err = "unknown store" /\ last.pre.manifest # <<>>
C20_NotFoundAnywhereReached ==
    NoStoreGiven /\ last.err = "not found in any source" /\ stores # <<>>

----------------------------------------------------------------------------
(* Malformed thread sources *)

\* The locations the resolution of the last add had to look at: with a
\* store name the local stores of that name, otherwise the search order up
\* to and including the first location that has an entry at the thread's
\* source path.
SearchedKinds ==
    IF StoreGiven
    THEN {KindInStore(i) : i \in NamedLocalStores}
    ELSE {KindAt(i) : i \in {k \in 1..Len(SearchOrder) :
                                \A j \in 1..(k - 1) : KindAt(j) = "none"}}

FirstEntryIsFile ==
    /\ (NoStoreGiven \/ StoreGiven)
    /\ "file" \in SearchedKinds
    /\ "dir" \notin SearchedKinds

\* C21: whenever the thread's source path in a searched store, the project
\* store included, is a regular file, the add ends with the malformed-thread
\* error, writes no file and does not record the thread.
C21_MalformedThread ==
    FirstEntryIsFile => last.err = "malformed" /\ NothingWritten

\* The part of C21 that the code keeps: a regular file in a configured local
\* store that is searched gives the malformed-thread error, and a regular
\* file in the project store still leaves project and manifest untouched.
C21_MalformedInConfiguredStore ==
    FirstEntryIsFile =>
        /\ NothingWritten
        /\ last.err # ""
        /\ (StoreGiven \/ KindAt(1) = "none") => last.err = "malformed"

C21_MalformedInStoreReached ==
    /\ NoStoreGiven
    /\ KindAt(1) = "none"
    /\ FirstEntryIsFile
    /\ last.err = "malformed"
    /\ last.pre.manifest # <<>>

----------------------------------------------------------------------------
(* Thread names in the manifest *)

NamesOf(cfg) == [i \in 1..Len(cfg) |-> cfg[i].name]

UniqueNames(cfg) ==
    \A i, j \in 1..Len(cfg) : cfg[i].name = cfg[j].name => i = j

\* The last command was a successful add of a thread the manifest already
\* had.
IsReAdd == IsAdd /\ IndexOf(last.pre.manifest, last.arg[1]) # 0

\* C22: thread names are unique in the manifest.  After any sequence of
\* commands from an initialized project no two records share a name, and an
\* add of a name the manifest already has leaves the sequence of names as it
\* was: the record is updated at its position.
C22_UniqueThreadNames ==
    /\ UniqueNames(manifest)
    /\ IsReAdd => NamesOf(manifest) = NamesOf(last.pre.manifest)

\* A thread that was not the last of the manifest was added again, from
\* another source, and its record changed where it stood.
C22_Witness ==
    /\ IsReAdd
    /\ Len(manifest) >= 2
    /\ IndexOf(manifest, last.arg[1]) = 1
    /\ manifest[1].source # last.pre.manifest[1].source

----------------------------------------------------------------------------
(* Directory keys of the manifest *)

NoEmptyKeys(cfg) ==
    \A i \in 1..Len(cfg) : \A d \in DOMAIN cfg[i].files : cfg[i].files[d] # {}

\* The directory keys a thread other than the one the command ran for had
\* before the command and has no more, its record being kept.
KeysDropped ==
    {<<i, d>> \in (1..Len(last.pre.manifest)) \X {normalizeDir(Dir(p)) : p \in AllPaths} :
        /\ last.pre.manifest[i].name # last.arg[1]
        /\ d \in DOMAIN last.pre.manifest[i].files
        /\ IndexOf(manifest, last.pre.manifest[i].name) # 0
        /\ d \notin DOMAIN manifest[IndexOf(manifest, last.pre.manifest[i].name)].files}

\* C23: no thread of the manifest has a directory key with an empty file
\* list, after any command; a directory whose last file was revoked has lost
\* its key.
C23_NoEmptyDirectoryKeys == NoEmptyKeys(manifest)

\* An add took the only file a directory key of another thread listed, and
\* that thread is still recorded, without the key.
C23_Witness ==
    /\ IsAdd
    /\ KeysDropped # {}
    /\ \E x \in KeysDropped :
          Cardinality(last.pre.manifest[x[1]].files[x[2]]) = 1

\* The same happens in a weave.
C23_WeaveDropsKeyReached ==
    Succeeded("weave") /\ KeysDropped # {}

----------------------------------------------------------------------------
(* Directory-key forms of a stored manifest *)

\* The forms of a directory key under which IsFileOwned matches the path:
\* with or without the trailing slash, with or without a leading "./".
KeyForms(p) ==
    IF Dir(p) = <<Dot>> THEN {RootKey, <<Dot>>}
    ELSE {Dir(p) \o <<Slash>>, Dir(p), <<Dot, Slash>> \o Dir(p) \o <<Slash>>,
          <<Dot, Slash>> \o Dir(p)}

\* A project whose loom.yaml records one thread with one file, the directory
\* key written in any of the forms, the file being in place.
InitKeys ==
    /\ \E B \in {"t1", "t2"} : \E p \in SourceTree("project", B) :
         \E k \in KeyForms(p) :
            /\ manifest = <<[name |-> B, source |-> ProjectSource(B),
                             files |-> AddToFiles(EmptyFiles, k, Split(p).file[1])]>>
            /\ disk = [q \in AllPaths |->
                          IF q = p THEN SourceContent("project", B) ELSE Absent]
            /\ dirs = IF Dir(p) = <<Dot>> THEN {} ELSE {Dir(p)}
    /\ last = NoCommand
    /\ stores = GlobalStores
    /\ sources = GlobalSources

NextKeys == AddOp \/ WeaveOp \/ IsFileOwnedCall \/ Exit

SpecKeys == InitKeys /\ [][NextKeys]_vars

\* The revoke step of weave and the revoke step of add, run for a path the
\* query reports as owned, leave the path with no thread of the manifest.
RevokeAgrees(cfg, p) ==
    LET q == IsFileOwned(cfg, p)
        key == normalizeDir(Split(p).dir)
        file == Split(p).file[1]
    IN  q.isOwned =>
          /\ ~Lists(removeFileFromThreadManifest(cfg, q.owner, p), q.owner, p)
          /\ \A current \in ThreadNames \ {q.owner} :
                ~Lists(removeFileFromOtherThreads(cfg, current, key, file),
                       q.owner, p)

\* C24: the query and the revoke steps agree on directory keys.  For every
\* stored form of a key under which the ownership query reports a thread as
\* owner of a path, the revoke step of weave and the revoke step of add
\* remove the path from that thread.
C24_KeyNormalizationAgreement ==
    \A p \in AllPaths : RevokeAgrees(manifest, p)

\* The agreement on the keys the tool itself writes: "./" and a directory
\* with one trailing slash.
ToolKeys(cfg) ==
    \A i \in 1..Len(cfg) : \A d \in DOMAIN cfg[i].files :
        d = RootKey \/ d = Clean(d) \o <<Slash>>
C24_AgreementOnToolKeys ==
    \A p \in AllPaths : ToolKeys(manifest) => RevokeAgrees(manifest, p)

\* The consequence in a command: an add overwrote, on a yes, a file its
\* former owner lists under a key the revoke step does not find, and the
\* manifest lists the file under both threads.
C24_BothListAfterYes ==
    /\ IsAdd
    /\ \E p \in AllPaths :
          /\ Cardinality(Owners(last.pre.manifest, p)) = 1
          /\ Cardinality(Owners(manifest, p)) = 2
          /\ \E k \in EventIdx : last.events[k].path = p /\ last.events[k].answer = "yes"

----------------------------------------------------------------------------
(* The ownership query *)

\* The threads of the configuration whose files hold the pair of the path:
\* a key that names the directory of the path, in any stored form, and the
\* file name under it.
Holders(cfg, relPath) ==
    {cfg[i].name : i \in {j \in 1..Len(cfg) :
        \E d \in DOMAIN cfg[j].files :
            /\ Components(d) = Components(Split(relPath).dir)
            /\ Split(relPath).file[1] \in cfg[j].files[d]}}

IsQuery == last.op = "query"
QueryResult == last.events[1]

\* C25: the ownership query is exact and pure.  It answers (name, true)
\* exactly when some thread's files hold the pair of the path, name being
\* such a thread, ("", false) otherwise, and neither manifest nor disk has
\* changed when it returns.
C25_QueryPureAndExact ==
    IsQuery =>
        /\ QueryResult.isOwned <=> Holders(last.pre.manifest, last.arg[1]) # {}
        /\ QueryResult.isOwned => QueryResult.owner \in Holders(last.pre.manifest, last.arg[1])
        /\ ~QueryResult.isOwned => QueryResult.owner = ""
        /\ manifest = last.pre.manifest
        /\ disk = last.pre.disk
        /\ dirs = last.pre.dirs

\* The query answered for a path that two threads hold, one of them under a
\* key stored without its trailing slash.
C25_Witness ==
    /\ IsQuery
    /\ QueryResult.isOwned
    /\ Cardinality(Holders(manifest, last.arg[1])) = 2
    /\ \E i \in 1..Len(manifest) : ~ToolKeys(<<manifest[i]>>)

\* It also answered that a path on disk has no owner.
C25_UnownedReached ==
    IsQuery /\ ~QueryResult.isOwned /\ disk[last.arg[1]] # Absent /\ manifest # <<>>

----------------------------------------------------------------------------
(* The source a weave reads *)

\* The record the manifest had, before the command, for the thread of the
\* k-th entry of the log.
RecordOf(k) == last.pre.manifest[IndexOf(last.pre.manifest, last.events[k].thread)]

\* The file the k-th entry wrote holds the bytes of the directory the
\* thread's recorded source names.
ReadFromRecordedSource(k) ==
    disk[last.events[k].path] =
        SourceContent(LocOfSource(RecordOf(k).source), RecordOf(k).name)

\* C26: weave re-applies each thread from its recorded source.  Every file
\* a weave wrote for a thread, and no later thread of the run wrote again,
\* holds the bytes of the source directory add resolved the thread from.
C26_WeaveFromRecordedSource ==
    last.op = "weave" =>
        \A k \in EventIdx :
            (last.events[k].written /\ LastWrite(k)) => ReadFromRecordedSource(k)

\* The part of C26 that the code keeps: threads recorded with a project
\* source are woven from that directory.
C26_ProjectSourcedWeave ==
    last.op = "weave" =>
        \A k \in EventIdx :
            (last.events[k].written /\ LastWrite(k)
               /\ RecordOf(k).source[1] = "project:") => ReadFromRecordedSource(k)

C26_ProjectSourcedReached ==
    /\ Succeeded("weave")
    /\ \E k \in EventIdx : /\ last.events[k].written
                           /\ RecordOf(k).source[1] = "project:"
                           /\ disk[last.events[k].path] # last.pre.disk[last.events[k].path]

\* A thread recorded from a configured store, whose directory is there, is
\* not woven at all when the project store has no thread of that name.
C26_StoreThreadSkipped ==
    /\ IsWeaveAll
    /\ \E i \in 1..Len(last.pre.manifest) :
          /\ last.pre.manifest[i].source[1] # "project:"
          /\ ThreadDirKind(LocOfSource(last.pre.manifest[i].source),
                           last.pre.manifest[i].name) = "dir"
          /\ \A k \in EventIdx : last.events[k].thread # last.pre.manifest[i].name

----------------------------------------------------------------------------
(* init *)

\* project.YamlFileName, as a path of the project.
YamlFileName == <<"loom.yaml">>

\* The bytes of loom.yaml, by kind: a space, a line break, the comment sign,
\* any other byte.
Space == " "
Newline == "nl"
Hash == "#"
Other == "x"
Bytes == {Space, Newline, Hash, Other}
MaxLen == 4

RECURSIVE SeqsUpTo(_, _)
SeqsUpTo(S, n) ==
    IF n = 0 THEN {<<>>}
    ELSE LET shorter == SeqsUpTo(S, n - 1)
         IN  shorter \cup {Append(s, x) : s \in {t \in shorter : Len(t) = n - 1}, x \in S}

\* loom.yaml as a file: absent, or present with its bytes.
NoYaml == [exists |-> FALSE, bytes |-> <<>>]
YamlWith(bytes) == [exists |-> TRUE, bytes |-> bytes]

\* The content InitProject writes: a comment line, the version line, the
\* empty thread list.
contentString == <<Hash, Other, Newline, Other, Newline, Other, Newline>>

IsWhite(b) == b \in {Space, Newline}

\* strings.TrimSpace
RECURSIVE TrimLeft(_)
TrimLeft(s) == IF s # <<>> /\ IsWhite(Head(s)) THEN TrimLeft(Tail(s)) ELSE s
RECURSIVE TrimRight(_)
TrimRight(s) ==
    IF s # <<>> /\ IsWhite(s[Len(s)]) THEN TrimRight(SubSeq(s, 1, Len(s) - 1)) ELSE s
TrimSpace(s) == TrimRight(TrimLeft(s))

\* strings.Split(s, "\n")
RECURSIVE SplitLines(_)
SplitLines(s) ==
    LET I == {i \in 1..Len(s) : s[i] = Newline}
    IN  IF I = {} THEN <<s>>
        ELSE <<SubSeq(s, 1, MinOf(I) - 1)>>
             \o SplitLines(SubSeq(s, MinOf(I) + 1, Len(s)))

HasPrefixHash(s) == s # <<>> /\ Head(s) = Hash

\* Mutant: a line is tested for the comment sign without being trimmed.
InitProject_LinesNotTrimmed(yaml) ==
    LET lines == SplitLines(yaml.bytes)
        isEmptyOrComments ==
            \A k \in 1..Len(lines) :
                ~(TrimSpace(lines[k]) # <<>> /\ ~HasPrefixHash(lines[k]))
    IN  IF yaml.exists /\ TrimSpace(yaml.bytes) # <<>> /\ ~isEmptyOrComments
        THEN [err |-> "already exists and is not empty", yaml |-> yaml]
        ELSE [err |-> "", yaml |-> YamlWith(contentString)]

\* project.InitProject: an existing loom.yaml with a line that is neither
\* blank nor a comment is an error; otherwise the default content is
\* written.
InitProject(yaml) ==
    LET lines == SplitLines(yaml.bytes)
        isEmptyOrComments ==
            \A k \in 1..Len(lines) :
                ~(TrimSpace(lines[k]) # <<>> /\ ~HasPrefixHash(TrimSpace(lines[k])))
    IN  IF yaml.exists /\ TrimSpace(yaml.bytes) # <<>> /\ ~isEmptyOrComments
        THEN [err |-> "already exists and is not empty", yaml |-> yaml]
        ELSE [err |-> "", yaml |-> YamlWith(contentString)]

\* `loom init`.
InitOp ==
    /\ last = NoCommand
    /\ LET r == InitProject(disk[YamlFileName])
       IN  /\ disk' = [disk EXCEPT ![YamlFileName] = r.yaml]
           /\ last' = [op |-> "init", arg |-> <<>>, err |-> r.err,
                       events |-> <<>>, pre |-> Snapshot]
    /\ UNCHANGED <<manifest, dirs, stores, sources>>

\* A directory in which loom.yaml is absent or holds any bytes; the disk is
\* the one file init looks at.
InitInit ==
    /\ manifest = <<>>
    /\ \E yaml \in {NoYaml} \cup {YamlWith(b) : b \in SeqsUpTo(Bytes, MaxLen)} :
          disk = [p \in {YamlFileName} |-> yaml]
    /\ dirs = {}
    /\ last = NoCommand
    /\ stores = GlobalStores
    /\ sources = GlobalSources

NextInit == InitOp \/ Exit

SpecInit == InitInit /\ [][NextInit]_vars

\* Every byte of the file that is not white space stands after a comment
\* sign of its line, and that sign is the first such byte of the line.
OnlyBlankAndCommentLines(bytes) ==
    \A i \in 1..Len(bytes) :
        ~IsWhite(bytes[i]) =>
            \E j \in 1..i :
                /\ bytes[j] = Hash
                /\ \A k \in j..i : bytes[k] # Newline
                /\ \A k \in 1..(j - 1) :
                      (\A m \in k..j : bytes[m] # Newline) => bytes[k] = Space

IsInit == last.op = "init"
YamlBefore == last.pre.disk[YamlFileName]

\* C27: init writes the default manifest if and only if loom.yaml is
\* absent, empty or made of blank and comment lines only; otherwise it
\* fails and the file keeps its bytes.
C27_InitOnlyOverEmpty ==
    IsInit =>
        IF ~YamlBefore.exists \/ OnlyBlankAndCommentLines(YamlBefore.bytes)
        THEN last.err = "" /\ disk[YamlFileName] = YamlWith(contentString)
        ELSE last.err # "" /\ disk[YamlFileName] = YamlBefore

\* init ran on the project a former init had initialized, and failed.
C27_Witness ==
    /\ IsInit
    /\ YamlBefore = YamlWith(contentString)
    /\ last.err # ""
    /\ disk[YamlFileName] = YamlWith(contentString)

\* init wrote over a file of an indented comment and a blank line.
C27_OverCommentsReached ==
    /\ IsInit
    /\ YamlBefore = YamlWith(<<Space, Hash, Other, Newline>>)
    /\ last.err = ""

----------------------------------------------------------------------------
(* Arguments of add *)

\* The argument is empty, or it has a slash and nothing before the first
\* slash or nothing after it.
HasEmptyPart(arg) ==
    \/ arg = <<>>
    \/ /\ \E i \in 1..Len(arg) : arg[i] = Slash
       /\ \/ arg[1] = Slash
          \/ \A i \in 1..Len(arg) : arg[i] = Slash => i = Len(arg)

ArgumentErrors == {"thread name required", "invalid format"}

\* C28: add rejects an empty argument and a store/thread argument with an
\* empty store part or an empty thread part.  The error is the argument
\* error, no location was searched, and project files and manifest are
\* those before the command.
C28_AddRejectsEmptyParts ==
    (last.op = "add" /\ HasEmptyPart(last.arg[3])) =>
        /\ last.err \in ArgumentErrors
        /\ last.arg[4] = ""
        /\ NothingWritten

\* `add S/` was rejected in a project that has threads, S being a
\* configured store.
C28_Witness ==
    /\ last.op = "add"
    /\ last.arg[3] = <<"S", Slash>>
    /\ last.err = "invalid format"
    /\ last.pre.manifest # <<>>
    /\ \E i \in 1..Len(stores) : stores[i].name = "S"

\* Every rejected form is tried.
C28_AllFormsReached ==
    last.op = "add" /\ last.err \in ArgumentErrors /\ last.pre.manifest # <<>>
        /\ last.arg[3] \in {<<>>, <<Slash>>, <<Slash, "t1">>}

\* An argument is rejected for its form only when a part is empty.
C28_OnlyEmptyPartsRejected ==
    (last.op = "add" /\ last.err \in ArgumentErrors) => HasEmptyPart(last.arg[3])

----------------------------------------------------------------------------
(* Order of a weave of all threads *)

IsWeaveAllRun == last.op = "weave" /\ last.arg = <<"">>

\* The position, in the manifest the weave loaded, of the thread of the
\* k-th entry of the log.
ThreadPos(k) == IndexOf(last.pre.manifest, last.events[k].thread)

\* The entries before the l-th in which an earlier thread wrote the path of
\* the l-th.
EarlierWrites(l) ==
    {k \in 1..(l - 1) : /\ last.events[k].written
                        /\ last.events[k].path = last.events[l].path
                        /\ ThreadPos(k) < ThreadPos(l)}

MaxOf(I) == CHOOSE i \in I : \A j \in I : j <= i

\* C29: a weave of all threads goes through the manifest in order, and the
\* files a thread wrote are its recorded files before the next thread's
\* first ownership check: the manifest a later thread's check consults for
\* a path an earlier thread wrote in the same run lists the path under the
\* last of those threads, and the check finds the path owned.
C29_WeaveAllOrdering ==
    IsWeaveAllRun =>
        /\ \A k, l \in EventIdx : k < l => ThreadPos(k) <= ThreadPos(l)
        /\ \A l \in EventIdx :
              EarlierWrites(l) # {} =>
                  /\ last.events[l].isOwned
                  /\ last.events[MaxOf(EarlierWrites(l))].thread
                         \in last.events[l].holders

\* The stronger reading, in which the check names the last writer as the
\* owner; it fails where the manifest lists the path under two threads.
C29_LastWriterIsOwner ==
    IsWeaveAllRun =>
        \A l \in EventIdx :
            EarlierWrites(l) # {} =>
                last.events[l].owner = last.events[MaxOf(EarlierWrites(l))].thread

\* An earlier thread took, on a yes, a file nobody owned, and the check of
\* a later thread of the same run found it owned by that thread.
C29_Witness ==
    /\ IsWeaveAllRun
    /\ \E l \in EventIdx :
          /\ EarlierWrites(l) # {}
          /\ LET k == MaxOf(EarlierWrites(l))
             IN  /\ ~last.events[k].isOwned
                 /\ last.events[k].asked
                 /\ last.events[l].owner = last.events[k].thread

----------------------------------------------------------------------------
(* Directory keys on either path separator *)

\* os.PathSeparator of the build: "/" or "\".
Backslash == "\\"
Separators == {Slash, Backslash}

\* Destination files as lists of path components, at most MaxDepth deep.
MaxDepth == 3
ComponentNames == {"a", "x", "y"}
DestinationFiles == SeqsUpTo(ComponentNames, MaxDepth) \ {<<>>}

\* The path of the components, written with the separator.
RECURSIVE OSPath(_, _)
OSPath(sep, c) ==
    IF Len(c) <= 1 THEN c ELSE <<c[1], sep>> \o OSPath(sep, Tail(c))

\* filepath.ToSlash
ToSlash(sep, s) == [i \in 1..Len(s) |-> IF s[i] = sep THEN Slash ELSE s[i]]

\* filepath.Split on the separator: the directory keeps its separator.
SplitOn(sep, p) ==
    LET I == {i \in 1..Len(p) : p[i] = sep}
        k == IF I = {} THEN 0 ELSE MaxOf(I)
    IN  [dir |-> SubSeq(p, 1, k), file |-> SubSeq(p, k + 1, Len(p))]

\* filepath.Rel(baseProjectPath, filepath.Dir(destPath)) for a destination
\* under the project root.
RelDirOn(sep, p) ==
    LET d == SplitOn(sep, p).dir
    IN  IF d = <<>> THEN <<Dot>> ELSE SubSeq(d, 1, Len(d) - 1)

\* Mutant: the separators of the path are not turned into slashes.
normalizeDirOn_NoToSlash(sep, dirPath) ==
    IF dirPath = <<>> \/ dirPath = <<Dot>> THEN RootKey
    ELSE IF ~HasSuffixSlash(dirPath) THEN dirPath \o <<Slash>>
    ELSE dirPath

\* weave.go normalizeDir, on a build with the given separator.
normalizeDirOn(sep, dirPath) ==
    IF dirPath = <<>> \/ dirPath = <<Dot>> THEN RootKey
    ELSE LET slashed == ToSlash(sep, dirPath)
         IN  IF ~HasSuffixSlash(slashed) THEN slashed \o <<Slash>> ELSE slashed

\* add _processFileCopy: the key recorded for a copied file.
relDirOfAdd(sep, destPath) ==
    LET relPathCurrent == RelDirOn(sep, destPath)
    IN  IF relPathCurrent = <<Dot>> THEN RootKey
        ELSE ToSlash(sep, relPathCurrent) \o <<Slash>>

\* weave collectFilesToProcessForWeaving, full walk: the key of a file of
\* the source tree.
destDirNormOfWeave(sep, relPathFromSourceDir) ==
    normalizeDirOn(sep, SplitOn(sep, relPathFromSourceDir).dir)

KeyRecord(op, sep, c, key) ==
    [op |-> op, arg |-> <<sep, c>>, err |-> "", events |-> <<key>>,
     pre |-> Snapshot]

\* add computes the key of one destination file.
KeyOfAdd ==
    /\ last = NoCommand
    /\ \E sep \in Separators, c \in DestinationFiles :
          last' = KeyRecord("key of add", sep, c, relDirOfAdd(sep, OSPath(sep, c)))
    /\ UNCHANGED <<manifest, disk, dirs, stores, sources>>

\* A full-walk weave computes the key of one destination file.
KeyOfWeave ==
    /\ last = NoCommand
    /\ \E sep \in Separators, c \in DestinationFiles :
          last' = KeyRecord("key of weave", sep, c,
                            destDirNormOfWeave(sep, OSPath(sep, c)))
    /\ UNCHANGED <<manifest, disk, dirs, stores, sources>>

\* A key that was produced is normalized again, as the targeted replay does
\* with the keys of the manifest.
NormalizeAgain ==
    /\ last.op \in {"key of add", "key of weave"}
    /\ last' = KeyRecord("normalize", last.arg[1], last.arg[2],
                         normalizeDirOn(last.arg[1], last.events[1]))
    /\ UNCHANGED <<manifest, disk, dirs, stores, sources>>

NextDirKeys == KeyOfAdd \/ KeyOfWeave \/ NormalizeAgain \/ Exit

SpecDirKeys == Init /\ [][NextDirKeys]_vars

\* The key the components of a destination call for: "./" at the root,
\* otherwise the directories joined by single slashes and one slash at the
\* end.
WantedKey(c) ==
    IF Len(c) = 1 THEN RootKey
    ELSE Interleave(SubSeq(c, 1, Len(c) - 1)) \o <<Slash>>

IsKeyStep == last.op \in {"key of add", "key of weave", "normalize"}

\* C30: add and a full-walk weave record the same directory key for a
\* destination file, on either separator: "./" for the root, otherwise
\* forward slashes and exactly one trailing slash; the ownership query
\* matches the file under that key; a key normalized again is unchanged.
C30_DirectoryKeysAgree ==
    IsKeyStep =>
        LET sep == last.arg[1]
            c == last.arg[2]
            key == last.events[1]
        IN  /\ key = WantedKey(c)
            /\ relDirOfAdd(sep, OSPath(sep, c)) = destDirNormOfWeave(sep, OSPath(sep, c))
            /\ IsFileOwned(<<[name |-> "t1", source |-> ProjectSource("t1"),
                              files |-> AddToFiles(EmptyFiles, key, c[Len(c)])]>>,
                           Interleave(c)).isOwned

\* On a build whose separator is the backslash, the key of a file two
\* directories deep was normalized again.
C30_Witness ==
    /\ last.op = "normalize"
    /\ last.arg[1] = Backslash
    /\ Len(last.arg[2]) = 3
    /\ last.events[1] = <<last.arg[2][1], Slash, last.arg[2][2], Slash>>

----------------------------------------------------------------------------
(* The answers no and skip *)

\* The runs the command that has just returned could have made from the
\* state it started in, one for each sequence of answers.
RunsOfLast ==
    IF last.op = "add"
    THEN Add(last.pre.manifest, last.pre.disk, last.pre.dirs, last.arg[3], {})
    ELSE Weave(last.pre.manifest, last.pre.disk, last.pre.dirs, last.arg[1], {})

Declined(answer) == IF answer = "skip" THEN "no" ELSE answer

\* The run went through the same files as the last command and got the
\* same answers, no and skip being taken for one another.
SameUpToNoSkip(r) ==
    /\ Len(r.events) = Len(last.events)
    /\ \A k \in EventIdx :
          /\ r.events[k].thread = last.events[k].thread
          /\ r.events[k].path = last.events[k].path
          /\ r.events[k].asked = last.events[k].asked
          /\ Declined(r.events[k].answer) = Declined(last.events[k].answer)

\* C31: the answers no and skip are indistinguishable.  Any run of the same
\* add or weave of all threads, from the same state, that differs from the
\* one made only in no and skip being exchanged, ends with the same disk
\* and the same manifest.
C31_NoAndSkipAlike ==
    (last.op = "add" \/ IsWeaveAllRun) =>
        \A r \in RunsOfLast :
            SameUpToNoSkip(r) => r.cfg = manifest /\ r.disk = disk /\ r.dirs = dirs

\* A weave of all threads was answered no for a file another thread owns
\* and skip for a file nobody owns, and the run with the two answers
\* exchanged is among the runs compared.
C31_Witness ==
    /\ IsWeaveAllRun
    /\ \E k, l \in EventIdx :
          /\ last.events[k].asked /\ last.events[k].isOwned
          /\ last.events[k].answer = "no"
          /\ last.events[l].asked /\ ~last.events[l].isOwned
          /\ last.events[l].answer = "skip"
          /\ \E r \in RunsOfLast :
                /\ SameUpToNoSkip(r)
                /\ r.events[k].answer = "skip"
                /\ r.events[l].answer = "no"

\* The same in an add.
C31_AddReached ==
    /\ last.op = "add"
    /\ \E k \in EventIdx :
          /\ last.events[k].asked /\ last.events[k].answer = "no"
          /\ \E r \in RunsOfLast : SameUpToNoSkip(r) /\ r.events[k].answer = "skip"

----------------------------------------------------------------------------
(* Declined unowned files *)

\* The entries of a weave of all threads in which an existing file nobody
\* owned was asked about and declined, no thread of the run having written
\* the file.
DeclinedUnowned ==
    {k \in EventIdx :
        /\ last.events[k].existed /\ ~last.events[k].isOwned
        /\ last.events[k].asked /\ last.events[k].answer \in {"no", "skip"}
        /\ \A j \in EventIdx :
              last.events[j].path = last.events[k].path => ~last.events[j].written}

\* The run asks, for that thread and that file, as about a file nobody
\* owns, unless an earlier thread of the run took the file on a yes.
AsksAgain(r, k) ==
    \E j \in 1..Len(r.events) :
        /\ r.events[j].thread = last.events[k].thread
        /\ r.events[j].path = last.events[k].path
        /\ r.events[j].asked
        /\ r.events[j].isOwned =>
              \E i \in 1..(j - 1) : /\ r.events[i].path = r.events[j].path
                                    /\ r.events[i].written

\* C32: a declined unowned file is not remembered.  After a weave of all
\* threads in which an existing unowned file was declined, the manifest
\* saved lists the file under no thread, and every next weave of all
\* threads, disk and sources being the same, asks about the file again.
C32_DeclinedNotRemembered ==
    IsWeaveAll =>
        \A k \in DeclinedUnowned :
            /\ Owners(manifest, last.events[k].path) = {}
            /\ \A r \in Weave(manifest, disk, dirs, "", {}) : AsksAgain(r, k)

\* A file the user wrote was declined, and in the next weave the first
\* question is about that file, still owned by nobody.
C32_Witness ==
    /\ IsWeaveAll
    /\ \E k \in DeclinedUnowned :
          /\ last.events[k].before = UserContent
          /\ \E r \in Weave(manifest, disk, dirs, "", {}) :
                \E j \in 1..Len(r.events) :
                    /\ r.events[j].path = last.events[k].path
                    /\ r.events[j].thread = last.events[k].thread
                    /\ r.events[j].asked /\ ~r.events[j].isOwned

----------------------------------------------------------------------------
(* config add, config remove *)

\* What `config add` can be given: directories (two of them differ only in
\* the case of a letter, two have the same base name), a relative path of
\* one of them, a path that does not exist, a regular file, a GitHub URL.
StoreInputs ==
    {"/p/S", "/p/s", "/q/S", "/q/T", "p/S", "/missing", "/p/file",
     "https://github.com/o/r"}

\* What `config remove` can be given: names and paths.
RemoveInputs == {"S", "s", "T", "U", "X", "/p/S", "/p/s", "/q/S", "p/S"}

\* The names the user can type when asked for another name; "" cancels.
CustomNames == {"", "s", "T", "U"}

\* filepath.Abs, the working directory being the root.
Abs(path) == IF path = "p/S" THEN "/p/S" ELSE path

\* filepath.Base
Base(path) ==
    CASE path \in {"/p/S", "/q/S"} -> "S"
      [] path = "/p/s" -> "s"
      [] path = "/q/T" -> "T"
      [] OTHER -> path

\* os.Stat of a path given to `config add`.
StatOf(path) ==
    CASE path \in {"/p/S", "/p/s", "/q/S", "/q/T"} -> "dir"
      [] path = "/p/file" -> "file"
      [] OTHER -> "none"

\* strings.ToLower
ToLower(x) ==
    CASE x = "S" -> "s"
      [] x = "T" -> "t"
      [] x = "U" -> "u"
      [] x = "X" -> "x"
      [] x = "/p/S" -> "/p/s"
      [] x = "/q/S" -> "/q/s"
      [] x = "/q/T" -> "/q/t"
      [] x = "p/S" -> "p/s"
      [] OTHER -> x

\* strings.EqualFold
EqualFold(a, b) == ToLower(a) = ToLower(b)

IsURL(pathOrURL) == pathOrURL = "https://github.com/o/r"

\* config inferStoreDetails
inferStoreDetails(pathOrURL) ==
    LET absPath == Abs(pathOrURL)
        none(e) == [err |-> e, type |-> "", name |-> "", path |-> ""]
    IN  IF IsURL(pathOrURL) THEN none("github not implemented")
        ELSE IF StatOf(absPath) = "none" THEN none("does not exist")
        ELSE IF StatOf(absPath) # "dir" THEN none("not a directory")
        ELSE [err |-> "", type |-> "local", name |-> Base(absPath), path |-> absPath]

Registered(gStores, path) ==
    \E i \in 1..Len(gStores) : EqualFold(gStores[i].path, path)
NameTaken(gStores, name) ==
    \E i \in 1..Len(gStores) : EqualFold(gStores[i].name, name)

\* Mutant: a custom name is taken as typed, without the second look at the
\* names of the configured stores.
addStoreAction_CustomNameUnchecked(gStores, userInputPathOrURL, answer) ==
    LET d == inferStoreDetails(userInputPathOrURL)
        out(e, asked, s) == [err |-> e, asked |-> asked, stores |-> s]
        new(name) == [name |-> name, type |-> d.type, path |-> d.path]
    IN  IF d.err = "github not implemented" THEN out("", FALSE, gStores)
        ELSE IF d.err # "" THEN out(d.err, FALSE, gStores)
        ELSE IF Registered(gStores, d.path) THEN out("already registered", FALSE, gStores)
        ELSE IF ~NameTaken(gStores, d.name) THEN out("", FALSE, Append(gStores, new(d.name)))
        ELSE IF answer = "error" THEN out("read input", TRUE, gStores)
        ELSE IF answer = "" THEN out("", TRUE, gStores)
        ELSE out("", TRUE, Append(gStores, new(answer)))

\* config addStoreAction: answer is what the user types when asked for
\* another name, "error" when the input cannot be read.
addStoreAction(gStores, userInputPathOrURL, answer) ==
    LET d == inferStoreDetails(userInputPathOrURL)
        out(e, asked, s) == [err |-> e, asked |-> asked, stores |-> s]
        new(name) == [name |-> name, type |-> d.type, path |-> d.path]
    IN  IF d.err = "github not implemented" THEN out("", FALSE, gStores)
        ELSE IF d.err # "" THEN out(d.err, FALSE, gStores)
        ELSE IF Registered(gStores, d.path) THEN out("already registered", FALSE, gStores)
        ELSE IF ~NameTaken(gStores, d.name) THEN out("", FALSE, Append(gStores, new(d.name)))
        ELSE IF answer = "error" THEN out("read input", TRUE, gStores)
        ELSE IF answer = "" THEN out("", TRUE, gStores)
        ELSE IF NameTaken(gStores, answer) THEN out("custom name conflicts", TRUE, gStores)
        ELSE out("", TRUE, Append(gStores, new(answer)))

\* config removeStoreAction: by name first, then by path.
removeStoreAction(gStores, nameOrPathToRemove) ==
    LET byName == SelectSeq(gStores,
                      LAMBDA st : ~EqualFold(st.name, nameOrPathToRemove))
        normalizedInputPath ==
            IF IsURL(nameOrPathToRemove) THEN nameOrPathToRemove
            ELSE Abs(nameOrPathToRemove)
        byPath == SelectSeq(gStores,
                      LAMBDA st : ~EqualFold(st.path, normalizedInputPath))
    IN  IF Len(byName) < Len(gStores) THEN [err |-> "", stores |-> byName]
        ELSE IF Len(byPath) < Len(gStores) THEN [err |-> "", stores |-> byPath]
        ELSE [err |-> "store not found", stores |-> gStores]

\* `loom config add <path_or_url>`
ConfigAdd ==
    /\ last = NoCommand
    /\ \E input \in StoreInputs, answer \in CustomNames \cup {"error"} :
          LET r == addStoreAction(stores, input, answer)
          IN  /\ stores' = r.stores
              /\ last' = [op |-> "config add",
                          arg |-> <<input, IF r.asked THEN answer ELSE "">>,
                          err |-> r.err, events |-> <<>>,
                          pre |-> [manifest |-> manifest, disk |-> disk,
                                   dirs |-> dirs, stores |-> stores]]
    /\ UNCHANGED <<manifest, disk, dirs, sources>>

\* `loom config remove <name_or_path>`
ConfigRemove ==
    /\ last = NoCommand
    /\ \E input \in RemoveInputs :
          LET r == removeStoreAction(stores, input)
          IN  /\ stores' = r.stores
              /\ last' = [op |-> "config remove", arg |-> <<input>>,
                          err |-> r.err, events |-> <<>>,
                          pre |-> [manifest |-> manifest, disk |-> disk,
                                   dirs |-> dirs, stores |-> stores]]
    /\ UNCHANGED <<manifest, disk, dirs, sources>>

\* A fresh global configuration: no store.
InitStores ==
    /\ manifest = <<>>
    /\ disk = [p \in AllPaths |-> Absent]
    /\ dirs = {}
    /\ last = NoCommand
    /\ stores = <<>>
    /\ sources = GlobalSources

NextStores == ConfigAdd \/ ConfigRemove \/ Exit

SpecStores == InitStores /\ [][NextStores]_vars

DuplicateFree(gStores) ==
    \A i, j \in 1..Len(gStores) :
        i # j => /\ ToLower(gStores[i].path) # ToLower(gStores[j].path)
                 /\ ToLower(gStores[i].name) # ToLower(gStores[j].name)

\* The path or name given matches a configured store, case put aside.
KnownPath(gStores, input) ==
    \E i \in 1..Len(gStores) : ToLower(gStores[i].path) = ToLower(Abs(input))
KnownName(gStores, input) ==
    \E i \in 1..Len(gStores) : ToLower(gStores[i].name) = ToLower(input)

\* C33: the store configuration stays free of duplicates.  After any
\* sequence of config add and config remove no two stores have the same
\* path or the same name, case put aside; a config add of a registered path
\* fails and a config remove of an unknown name or path fails, both leaving
\* the list as it was.
C33_StoresDuplicateFree ==
    /\ DuplicateFree(stores)
    /\ (last.op = "config add" /\ KnownPath(last.pre.stores, last.arg[1])) =>
           last.err # "" /\ stores = last.pre.stores
    /\ (last.op = "config remove"
          /\ ~KnownName(last.pre.stores, last.arg[1])
          /\ ~KnownPath(last.pre.stores, last.arg[1])) =>
           last.err # "" /\ stores = last.pre.stores

\* A directory whose base name was taken was added under a custom name, two
\* stores being configured already; and a path that differs from a
\* registered one only in case was refused.
C33_Witness ==
    /\ last.op = "config add"
    /\ last.err = ""
    /\ Len(stores) = 3
    /\ last.arg[2] # ""
    /\ KnownName(last.pre.stores, Base(Abs(last.arg[1])))

C33_FoldedPathRefused ==
    /\ last.op = "config add"
    /\ last.arg[1] = "/p/s"
    /\ last.err = "already registered"
    /\ \E i \in 1..Len(stores) : stores[i].path = "/p/S"

C33_UnknownRemoveReached ==
    last.op = "config remove" /\ last.err # "" /\ stores # <<>>

----------------------------------------------------------------------------
(* The scope of a targeted weave *)

IsTargetedRun == last.op = "weave" /\ last.arg # <<"">>

\* C34: a targeted weave of thread A that starts from an exclusive manifest
\* never asks, leaves the record of every other thread as it was, writes no
\* file outside the files recorded for A, and processes no other thread.
C34_TargetedWeaveScope ==
    (IsTargetedRun /\ Exclusive(last.pre.manifest)) =>
        /\ \A k \in EventIdx :
              /\ ~last.events[k].asked
              /\ last.events[k].thread = last.arg[1]
              /\ Lists(last.pre.manifest, last.arg[1], last.events[k].path)
        /\ Len(manifest) = Len(last.pre.manifest)
        /\ \A i \in 1..Len(manifest) :
              last.pre.manifest[i].name # last.arg[1] =>
                  manifest[i] = last.pre.manifest[i]
        /\ \A p \in AllPaths :
              disk[p] # last.pre.disk[p] => Lists(last.pre.manifest, last.arg[1], p)

\* The second of three threads was woven alone from an exclusive manifest
\* and wrote anew a file of its own that had been deleted, another thread
\* of the manifest having files recorded.
C34_Witness ==
    /\ IsTargetedWeave
    /\ Exclusive(last.pre.manifest)
    /\ Len(last.pre.manifest) = 3
    /\ IndexOf(last.pre.manifest, last.arg[1]) = 2
    /\ \E k \in EventIdx : last.events[k].written /\ ~last.events[k].existed
    /\ \E i \in {1, 3} : last.pre.manifest[i].files # EmptyFiles

----------------------------------------------------------------------------
(* A thread whose source directory is missing *)

\* The thread's source directory is not there.
SourceMissing(thread) ==
    ThreadDirKind(determineThreadSourcePath(thread).loc,
                  determineThreadSourcePath(thread).thread) = "none"

\* The weave was to process the i-th thread of the manifest it loaded.
Concerns(i) ==
    /\ last.op = "weave"
    /\ i \in 1..Len(last.pre.manifest)
    /\ last.arg[1] \in {"", last.pre.manifest[i].name}

\* Another thread of the run wrote a file that was in place and recorded for
\* the thread of that name, and took it over.
TakenFrom(name) ==
    {last.events[k].path : k \in {j \in EventIdx :
        /\ last.events[j].written
        /\ last.events[j].existed
        /\ last.events[j].isOwned
        /\ last.events[j].owner = name}}

C35_TargetedSkipReached ==
    /\ IsTargetedWeave
    /\ SourceMissing(last.pre.manifest[IndexOf(last.pre.manifest, last.arg[1])])
    /\ last.pre.manifest[IndexOf(last.pre.manifest, last.arg[1])].files # EmptyFiles
    /\ NothingWritten

----------------------------------------------------------------------------
(* A targeted weave of a thread the manifest does not have *)

UnknownTarget ==
    /\ IsTargetedRun
    /\ IndexOf(last.pre.manifest, last.arg[1]) = 0

\* C36: a targeted weave that names a thread the manifest does not have
\* ends with the thread-not-found error, writes no file of the project and
\* leaves the manifest as it was.
C36_UnknownTargetFails ==
    UnknownTarget =>
        /\ last.err = "thread not found"
        /\ last.events = <<>>
        /\ NothingWritten

\* The manifest had a thread whose recorded file was missing on disk, which
\* a weave of all threads would have written again.
C36_Witness ==
    /\ UnknownTarget
    /\ last.err # ""
    /\ \E i \in 1..Len(last.pre.manifest) :
          /\ ~SourceMissing(last.pre.manifest[i])
          /\ \E p \in OwnedPaths(last.pre.manifest[i]) : disk[p] = Absent

----------------------------------------------------------------------------
(* remove in a project with or without loom.yaml *)

\* What os.ReadFile gives for a loom.yaml that is there; its parsed thread
\* list is the variable manifest.
YamlContent == <<"version", "threads">>

YamlThere(dsk) == dsk[YamlFileName] # Absent

\* remove readLoomConfig, then removeThreadAction: a loom.yaml that cannot
\* be read is an error before anything is looked up.
removeThreadActionOnDisk(cfg, dsk, drs, threadName) ==
    IF ~YamlThere(dsk)
    THEN {[cfg |-> cfg, disk |-> dsk, dirs |-> drs, err |-> "failed to read"]}
    ELSE removeThreadAction(cfg, dsk, drs, threadName)

\* remove removeAllThreadsAction from its os.ReadFile on: without loom.yaml
\* there is nothing to remove and the command returns nil.
removeAllThreadsActionOnDisk(cfg, dsk, drs) ==
    IF ~YamlThere(dsk)
    THEN {[cfg |-> cfg, disk |-> dsk, dirs |-> drs, err |-> ""]}
    ELSE removeAllThreadsAction(cfg, dsk, drs)

\* `loom add`: loadProjectLoomConfig starts from an empty thread list when
\* loom.yaml is not there, and updateLoomConfig writes loom.yaml at the end
\* of a run without error.
AddYaml ==
    /\ last = NoCommand
    /\ \E fullThreadArg \in AddArgs :
        \E r \in Add(manifest, disk, dirs, fullThreadArg, {}) :
            /\ manifest' = r.cfg
            /\ disk' = [r.disk EXCEPT ![YamlFileName] =
                            IF r.err = "" THEN YamlContent ELSE @]
            /\ dirs' = r.dirs
            /\ last' = [op |-> "add",
                        arg |-> <<r.thread, r.source, fullThreadArg, r.loc>>,
                        err |-> r.err, events |-> r.events, pre |-> Snapshot]
            /\ UNCHANGED <<stores, sources>>

\* `loom remove <thread>`
RemoveYaml ==
    /\ last = NoCommand
    /\ \E threadName \in ThreadNames :
        \E r \in removeThreadActionOnDisk(manifest, disk, dirs, threadName) :
            /\ manifest' = r.cfg
            /\ disk' = r.disk
            /\ dirs' = r.dirs
            /\ last' = [op |-> "remove", arg |-> <<threadName>>, err |-> r.err,
                        events |-> <<>>, pre |-> Snapshot]
            /\ UNCHANGED <<stores, sources>>

\* `loom remove *`
RemoveAllYaml ==
    /\ last = NoCommand
    /\ \E r \in removeAllThreadsActionOnDisk(manifest, disk, dirs) :
           /\ manifest' = r.cfg
           /\ disk' = r.disk
           /\ dirs' = r.dirs
           /\ last' = [op |-> "remove", arg |-> <<"*">>, err |-> r.err,
                       events |-> <<>>, pre |-> Snapshot]
           /\ UNCHANGED <<stores, sources>>

\* Between two commands the user deletes loom.yaml by hand.
UserDeleteYaml ==
    /\ last = NoCommand
    /\ YamlThere(disk)
    /\ disk' = [disk EXCEPT ![YamlFileName] = Absent]
    /\ manifest' = <<>>
    /\ UNCHANGED <<dirs, last, stores, sources>>

\* An empty directory in which `loom init` was not run.
InitYaml ==
    /\ manifest = <<>>
    /\ disk = [p \in AllPaths \cup {YamlFileName} |-> Absent]
    /\ dirs = {}
    /\ last = NoCommand
    /\ stores = GlobalStores
    /\ sources = GlobalSources

NextYaml ==
    AddYaml \/ RemoveYaml \/ RemoveAllYaml \/ UserWrite \/ UserDeleteYaml \/ Exit

SpecYaml == InitYaml /\ [][NextYaml]_vars

IsRemoveRun == last.op = "remove"

\* C37: the removal of a thread name that the manifest does not have ends
\* with the thread-not-found error, deletes no file and no directory and
\* leaves the manifest as it was; `remove *` in a project without manifest
\* or with an empty thread list succeeds and changes nothing.
C37_RemoveOfNothing ==
    /\ (/\ IsRemoveRun
        /\ last.arg # <<"*">>
        /\ YamlThere(last.pre.disk)
        /\ IndexOf(last.pre.manifest, last.arg[1]) = 0)
       => (last.err = "thread not found" /\ NothingWritten)
    /\ (/\ IsRemoveRun
        /\ last.arg # <<"*">>
        /\ ~YamlThere(last.pre.disk))
       => (last.err # "" /\ NothingWritten)
    /\ (/\ IsRemoveRun
        /\ last.arg = <<"*">>
        /\ (~YamlThere(last.pre.disk) \/ last.pre.manifest = <<>>))
       => (last.err = "" /\ NothingWritten)

\* A thread that is not in the manifest was to be removed from a project
\* whose manifest has another thread with files in place.
C37_Witness ==
    /\ IsRemoveRun
    /\ last.arg # <<"*">>
    /\ last.err = "thread not found"
    /\ last.pre.manifest # <<>>
    /\ \E p \in AllOwnedPaths(last.pre.manifest) : disk[p] # Absent

\* `remove *` without loom.yaml, files of a former thread being in place.
C37_NoManifestReached ==
    /\ IsRemoveRun
    /\ last.arg = <<"*">>
    /\ ~YamlThere(last.pre.disk)
    /\ \E p \in AllPaths : disk[p] \notin {Absent, UserContent}

\* `remove *` with a loom.yaml that lists no thread.
C37_EmptyListReached ==
    /\ IsRemoveRun
    /\ last.arg = <<"*">>
    /\ YamlThere(last.pre.disk)
    /\ last.pre.manifest = <<>>
    /\ \E p \in AllPaths : disk[p] # Absent

----------------------------------------------------------------------------
(* The order of the threads in the manifest *)

\* The sequence without the entries equal to x.
Without(s, x) == SelectSeq(s, LAMBDA y : y # x)

\* C38: the order of the threads in the manifest is stable.  An add of a
\* new name appends the thread at the end, an add of a name the manifest has
\* keeps every thread at its position, a weave leaves the sequence of names
\* as it was, and the removal of one thread leaves the other names in the
\* order they had.
C38_ThreadOrderStable ==
    /\ (IsAdd /\ IndexOf(last.pre.manifest, last.arg[1]) = 0) =>
           NamesOf(manifest) = Append(NamesOf(last.pre.manifest), last.arg[1])
    /\ (IsAdd /\ IndexOf(last.pre.manifest, last.arg[1]) # 0) =>
           /\ Len(manifest) = Len(last.pre.manifest)
           /\ \A i \in 1..Len(manifest) :
                 manifest[i].name = last.pre.manifest[i].name
    /\ last.op = "weave" => NamesOf(manifest) = NamesOf(last.pre.manifest)
    /\ IsRemoveOne =>
           NamesOf(manifest) = Without(NamesOf(last.pre.manifest), last.arg[1])

\* The first of three threads was added again and took a file from a later
\* thread; it is still the first.
C38_Witness ==
    /\ IsReAdd
    /\ Len(last.pre.manifest) = 3
    /\ last.pre.manifest[1].name = last.arg[1]
    /\ manifest[1].name = last.arg[1]
    /\ \E i \in {2, 3} : manifest[i] # last.pre.manifest[i]

\* The second of three threads was removed.
C38_MiddleRemoved ==
    /\ IsRemoveOne
    /\ Len(last.pre.manifest) = 3
    /\ last.pre.manifest[2].name = last.arg[1]
    /\ NamesOf(manifest) = <<last.pre.manifest[1].name, last.pre.manifest[3].name>>

\* A weave of all threads over three threads changed the manifest.
C38_WeaveOverThree ==
    /\ IsWeaveAll
    /\ Len(last.pre.manifest) = 3
    /\ manifest # last.pre.manifest

----------------------------------------------------------------------------
(* remove when a file cannot be deleted *)

\* A project after adds, with a file in the project root, one in a directory
\* and one in a directory of that directory: every file is listed by at
\* most one thread; a file
\* is on disk, or was deleted by the user, or is on disk and cannot be
\* deleted; the project root and the directories of the files on disk
\* exist, and others may; loom.yaml is in the project root.
InitStuck ==
    \E own \in [{FileA, NestedF, NestedG} -> {"", "t1", "t2"}] :
      \E state \in [DOMAIN own -> {"absent", "there", "stuck"}] :
        \E extra \in SUBSET NestedDirs :
            /\ manifest = ManifestOf(own)
            /\ disk = [p \in DOMAIN own \cup {YamlFileName} |->
                          IF p = YamlFileName THEN YamlContent
                          ELSE IF state[p] = "absent" THEN Absent
                          ELSE IF state[p] = "stuck" THEN Undeletable
                          ELSE IF own[p] = "" THEN UserContent
                          ELSE SourceContent("/S", own[p])]
            /\ dirs = {<<Dot>>}
                      \cup UNION {Ancestors(p) : p \in {q \in DOMAIN own :
                                                          state[q] # "absent"}}
                      \cup extra \cup UNION {Ancestors(d) : d \in extra}
            /\ last = NoCommand
            /\ stores = GlobalStores
            /\ sources = GlobalSources

SpecStuck == InitStuck /\ [][NextRemove]_vars

\* The threads the remove was to remove, and the files they listed.
ThreadsBeingRemoved ==
    IF last.arg = <<"*">> THEN {i \in 1..Len(last.pre.manifest) : TRUE}
    ELSE {i \in 1..Len(last.pre.manifest) :
             last.pre.manifest[i].name = last.arg[1]}
PathsBeingRemoved ==
    UNION {OwnedPaths(last.pre.manifest[i]) : i \in ThreadsBeingRemoved}

\* C39: remove, of one thread or of all, never deletes the project root,
\* never deletes a directory that still has an entry, and never deletes a
\* file that no thread being removed lists; a listed file that cannot be
\* deleted is a warning only: the command succeeds and the thread's record
\* is removed from the manifest.
C39_RemoveSafety ==
    IsRemoveRun =>
        /\ <<Dot>> \in dirs
        /\ dirs \subseteq last.pre.dirs
        /\ \A d \in last.pre.dirs \ dirs : DirIsEmpty(disk, dirs, d)
        /\ \A p \in DOMAIN disk :
              disk[p] # last.pre.disk[p] =>
                  (disk[p] = Absent /\ p \in PathsBeingRemoved)
        /\ \A p \in DOMAIN disk :
              last.pre.disk[p] = Undeletable =>
                  (disk[p] = Undeletable /\ Ancestors(p) \subseteq dirs)
        /\ ThreadsBeingRemoved # {} =>
              /\ last.err = ""
              /\ \A i \in 1..Len(manifest) :
                    manifest[i].name \notin
                        {last.pre.manifest[j].name : j \in ThreadsBeingRemoved}

\* A thread was removed by name, one of its files could not be deleted and
\* another one, in the same directory tree, was: the record is gone, the
\* first file is in place.
C39_Witness ==
    /\ IsRemoveOne
    /\ \E p \in PathsBeingRemoved : last.pre.disk[p] = Undeletable /\ disk[p] # Absent
    /\ \E p \in PathsBeingRemoved :
          last.pre.disk[p] \notin {Absent, Undeletable} /\ disk[p] = Absent
    /\ IndexOf(manifest, last.arg[1]) = 0

\* `remove *` left a file that could not be deleted and deleted an emptied
\* directory.
C39_RemoveAllReached ==
    /\ IsRemoveAll
    /\ manifest = <<>>
    /\ \E p \in PathsBeingRemoved : disk[p] = Undeletable
    /\ last.pre.dirs # dirs

\* The thread removed listed a file of the project root, which was deleted;
\* the root has no other file of a thread.
C39_RootKeyReached ==
    /\ IsRemoveOne
    /\ FileA \in PathsBeingRemoved
    /\ last.pre.disk[FileA] \notin {Absent, Undeletable}
    /\ \A p \in DOMAIN disk \ {YamlFileName} : disk[p] = Absent

====
